---- MODULE Spec2Model ----
(***************************************************************************)
(* Model of the BoostIQ screening API (src/unnamed/part_000) and of the    *)
(* Telegram forwarder that polls it (src/index.js).                        *)
(*                                                                         *)
(* Conventions.  Decimal quantities that the code produces with            *)
(* toFixed(2) (percent changes, volume ratio, volatility) are integers in  *)
(* hundredths (Scale == 100): "3.00" is 300.  RSI and scores are integers. *)
(* A symbol is the sequence of its characters, so that endsWith('USDT')    *)
(* is computed and not assumed.  JavaScript's NaN is the value NaN; every  *)
(* comparison with it is false (operators Lt, Ge, Le).                     *)
(***************************************************************************)
EXTENDS Integers, Sequences, FiniteSets, TLC

(***************************************************************************)
(* CONFIG, part_000 lines 27-47                                            *)
(***************************************************************************)
CACHE_SHORT_TTL == 120
CACHE_LONG_TTL == 1800
MIN_VOLUME_EXPLOSION == 30000
MIN_VOLUME_REGULAR == 20000
MIN_GAIN_5M == 3
MIN_GAIN_1H == 4
\* 1.5, in hundredths
MIN_VOLUME_RATIO == 150
RSI_MIN == 40
RSI_MAX == 70
MIN_EXPLOSION_SCORE == 40
MIN_ALERT_SCORE == 40
MAX_CANDIDATES == 50
TOP_RESULTS == 10
RSI_PERIOD == 14
\* 0.5 percent, in hundredths of a percent
COMPRESSION_THRESHOLD == 50
\* fetchData(url, retries = 2)
DEFAULT_RETRIES == 2

\* toFixed(2): two decimals, kept as an integer number of hundredths
Scale == 100
\* parseFloat(undefined), 0/0: JavaScript's NaN
NaN == -999999

Lt(a, b) == a # NaN /\ b # NaN /\ a < b
Ge(a, b) == a # NaN /\ b # NaN /\ a >= b
Le(a, b) == a # NaN /\ b # NaN /\ a <= b

(***************************************************************************)
(* Symbols                                                                 *)
(***************************************************************************)
USDT == <<"U","S","D","T">>

\* String.prototype.endsWith
EndsWith(s, suffix) ==
    /\ Len(s) >= Len(suffix)
    /\ SubSeq(s, Len(s) - Len(suffix) + 1, Len(s)) = suffix

POPULAR_TOKENS == {
    <<"B","T","C">> \o USDT, <<"E","T","H">> \o USDT, <<"B","N","B">> \o USDT,
    <<"X","R","P">> \o USDT, <<"A","D","A">> \o USDT, <<"S","O","L">> \o USDT,
    <<"D","O","G","E">> \o USDT, <<"M","A","T","I","C">> \o USDT, <<"D","O","T">> \o USDT,
    <<"T","R","X">> \o USDT, <<"L","T","C">> \o USDT, <<"L","I","N","K">> \o USDT,
    <<"S","H","I","B">> \o USDT, <<"A","V","A","X">> \o USDT, <<"A","T","O","M">> \o USDT,
    <<"N","E","A","R">> \o USDT, <<"X","L","M">> \o USDT, <<"E","T","C">> \o USDT,
    <<"B","C","H">> \o USDT, <<"H","B","A","R">> \o USDT, <<"F","I","L">> \o USDT,
    <<"S","U","I">> \o USDT, <<"A","P","T">> \o USDT, <<"I","N","J">> \o USDT,
    <<"I","M","X">> \o USDT, <<"A","R","B">> \o USDT, <<"R","N","D","R">> \o USDT,
    <<"T","O","N">> \o USDT, <<"I","C","P">> \o USDT, <<"C","R","O">> \o USDT,
    <<"N","E","O">> \o USDT, <<"I","O","T","A">> \o USDT, <<"Q","T","U","M">> \o USDT }

(***************************************************************************)
(* Arithmetic helpers                                                      *)
(***************************************************************************)
\* Math.round(n / d) for d > 0: floor(n/d + 1/2)
MathRound(n, d) == (2 * n + d) \div (2 * d)

\* (n / d).toFixed(2) read back by parseFloat, for d > 0, as hundredths:
\* nearest hundredth, halves away from zero
ToFixed2(n, d) ==
    IF n >= 0 THEN (2 * n * Scale + d) \div (2 * d)
              ELSE -((2 * (-n) * Scale + d) \div (2 * d))

RECURSIVE SumSeq(_)
SumSeq(s) == IF s = <<>> THEN 0 ELSE Head(s) + SumSeq(Tail(s))

\* Array.prototype.slice(-n)
LastN(s, n) == IF Len(s) <= n THEN s ELSE SubSeq(s, Len(s) - n + 1, Len(s))

\* Array.prototype.slice(0, n)
Slice0(s, n) == IF Len(s) <= n THEN s ELSE SubSeq(s, 1, n)

\* Array.prototype.includes
Includes(s, x) == \E i \in 1..Len(s) : s[i] = x

(***************************************************************************)
(* fetchData, part_000 lines 74-87.  net is what the network does on the   *)
(* successive attempts of one call: each attempt either resolves with the  *)
(* response data or fails.  The result says whether the call returned (ok) *)
(* or threw, the data returned, and how many requests were made.           *)
(***************************************************************************)
Ok(d) == [ok |-> TRUE, data |-> d]
Fail == [ok |-> FALSE, data |-> <<>>]

\* a retry too many: the test of line 79 as retries >= 0
MayRetryOnceMore(retries) == retries >= 0

\* the test of line 79
MayRetry(retries) == retries > 0

RECURSIVE fetchData(_, _)
fetchData(net, retries) ==
    IF Head(net).ok
    THEN [ok |-> TRUE, data |-> Head(net).data, attempts |-> 1]
    ELSE IF MayRetry(retries)
         THEN LET rest == fetchData(Tail(net), retries - 1)
              IN  [ok |-> rest.ok, data |-> rest.data, attempts |-> rest.attempts + 1]
         ELSE [ok |-> FALSE, data |-> <<>>, attempts |-> 1]

(***************************************************************************)
(* Indicators, part_000 lines 89-161.  res is the outcome of the           *)
(* indicator's own fetchData call: [ok, data], data a sequence of candles  *)
(* [close, volume], oldest first.                                          *)
(***************************************************************************)
Closes(data) == [i \in 1..Len(data) |-> data[i].close]

\* calculateChange: 0 on failure or with fewer than 2 candles
calculateChange(res) ==
    IF ~res.ok THEN 0
    ELSE IF Len(res.data) < 2 THEN 0
    ELSE LET prevClose == res.data[1].close
             currClose == res.data[2].close
         IN  ToFixed2((currClose - prevClose) * 100, prevClose)

\* closes.slice(1).map((close, i) => close - closes[i])
Deltas(closes) == [i \in 1..(Len(closes) - 1) |-> closes[i + 1] - closes[i]]

Gains(changes) == [i \in 1..Len(changes) |-> IF changes[i] > 0 THEN changes[i] ELSE 0]
Losses(changes) == [i \in 1..Len(changes) |-> IF changes[i] < 0 THEN -changes[i] ELSE 0]

\* calculateRSI that answers 100 whenever there is no loss
calculateRSINoFlat(res) ==
    IF ~res.ok THEN 50
    ELSE LET closes == Closes(res.data)
         IN  IF Len(closes) < RSI_PERIOD + 1 THEN 50
             ELSE LET changes == Deltas(closes)
                      sumGain == SumSeq(LastN(Gains(changes), RSI_PERIOD))
                      sumLoss == SumSeq(LastN(Losses(changes), RSI_PERIOD))
                  IN  IF sumLoss = 0 THEN 100
                      ELSE MathRound(100 * (sumGain + sumLoss) - 100 * sumLoss,
                                     sumGain + sumLoss)

\* calculateRSI.  avgGain and avgLoss are the sums over RSI_PERIOD; the
\* common divisor cancels in rs = avgGain / avgLoss and in the tests with 0.
calculateRSI(res) ==
    IF ~res.ok THEN 50
    ELSE LET closes == Closes(res.data)
         IN  IF Len(closes) < RSI_PERIOD + 1 THEN 50
             ELSE LET changes == Deltas(closes)
                      sumGain == SumSeq(LastN(Gains(changes), RSI_PERIOD))
                      sumLoss == SumSeq(LastN(Losses(changes), RSI_PERIOD))
                  IN  IF sumLoss = 0 THEN (IF sumGain > 0 THEN 100 ELSE 50)
                      \* 100 - 100 / (1 + rs) with rs = sumGain / sumLoss
                      ELSE MathRound(100 * (sumGain + sumLoss) - 100 * sumLoss,
                                     sumGain + sumLoss)

\* calculateVolumeRatio whose catch returns 0 instead of 1
calculateVolumeRatioZero(res, currentVolume) ==
    IF ~res.ok THEN 0
    ELSE LET n == Len(res.data)
             total == SumSeq([i \in 1..n |-> res.data[i].volume])
         IN  IF currentVolume = NaN THEN NaN
             ELSE IF n = 0 \/ total = 0 THEN ToFixed2(currentVolume, 1)
             ELSE ToFixed2(currentVolume * n, total)

\* calculateVolumeRatio: 1 on failure; avgVolume = sum / length || 1
calculateVolumeRatio(res, currentVolume) ==
    IF ~res.ok THEN 1 * Scale
    ELSE LET n == Len(res.data)
             total == SumSeq([i \in 1..n |-> res.data[i].volume])
         IN  IF currentVolume = NaN THEN NaN
             ELSE IF n = 0 \/ total = 0 THEN ToFixed2(currentVolume, 1)
             ELSE ToFixed2(currentVolume * n, total)

\* (close - closes[i]) / closes[i] * 100, in hundredths of a percent
PercentChanges(closes) ==
    IF Len(closes) < 2 THEN <<>>
    ELSE [i \in 1..(Len(closes) - 1) |->
             ((closes[i + 1] - closes[i]) * 100 * Scale) \div closes[i]]

\* n^2 times the population variance of the changes (n = Len(changes) > 0)
VarianceTimesN2(changes) ==
    LET n == Len(changes)
        s == SumSeq(changes)
        q == SumSeq([i \in 1..n |-> changes[i] * changes[i]])
    IN  n * q - s * s

\* calculateCompression that also accepts a deviation equal to the threshold
calculateCompressionAtMost(res) ==
    IF ~res.ok THEN FALSE
    ELSE LET changes == PercentChanges(Closes(res.data))
             n == Len(changes)
         IN  IF n = 0 THEN FALSE
             ELSE VarianceTimesN2(changes)
                    <= COMPRESSION_THRESHOLD * COMPRESSION_THRESHOLD * n * n

\* calculateCompression: false on failure; with no change at all the
\* standard deviation is NaN and NaN < threshold is false
calculateCompression(res) ==
    IF ~res.ok THEN FALSE
    ELSE LET changes == PercentChanges(Closes(res.data))
             n == Len(changes)
         IN  IF n = 0 THEN FALSE
             ELSE VarianceTimesN2(changes)
                    < COMPRESSION_THRESHOLD * COMPRESSION_THRESHOLD * n * n

\* the integer nearest to sqrt(v / n^2): the least s with v / n^2 < (s + 1/2)^2,
\* found by bisection in lo..hi
RECURSIVE RoundedSqrtIn(_, _, _, _)
RoundedSqrtIn(v, n, lo, hi) ==
    IF lo >= hi THEN lo
    ELSE LET mid == (lo + hi) \div 2
         IN  IF 4 * v < (2 * mid + 1) * (2 * mid + 1) * n * n
             THEN RoundedSqrtIn(v, n, lo, mid)
             ELSE RoundedSqrtIn(v, n, mid + 1, hi)

\* standard deviations up to 10.00 percent
RoundedSqrt(v, n) == RoundedSqrtIn(v, n, 0, 10 * Scale)

\* calculateVolatility: 10 on failure; stdDev.toFixed(2) otherwise ("NaN"
\* when the window holds no change)
calculateVolatility(res) ==
    IF ~res.ok THEN 10 * Scale
    ELSE LET changes == PercentChanges(Closes(res.data))
             n == Len(changes)
         IN  IF n = 0 THEN NaN ELSE RoundedSqrt(VarianceTimesN2(changes), n)

(***************************************************************************)
(* Scoring and admission, part_000 lines 235-252 and 335-351.  ind is the  *)
(* array the handler destructures from Promise.all:                        *)
(* <<change5m, change1h, rsi, volumeRatio, compression, volatility>>.      *)
(***************************************************************************)
RsiInBand(rsi) == Ge(rsi, RSI_MIN) /\ Le(rsi, RSI_MAX)

\* Math.round(change5m / 25 * 100 * 0.4 + change1h / 35 * 100 * 0.2
\*            + volumeRatio / 10 * 100 * 0.3 + (inBand ? 100 : 50) * 0.1
\*            + (isNew ? 20 : 0) + (compression ? bonus : 0) + 20)
\* The three quotients are c5 * 4 / 250, c1 * 2 / 350 and vr * 3 / 100 in
\* hundredths, the RSI term is 10 or 5; 3500 is their common denominator.
\* the same sum under Math.floor
ScoreSumFloored(ind, isNew, compressionBonus) ==
    IF ind[1] = NaN \/ ind[2] = NaN \/ ind[4] = NaN THEN NaN
    ELSE (  ind[1] * 4 * 14
          + ind[2] * 2 * 10
          + ind[4] * 3 * 35
          + (IF RsiInBand(ind[3]) THEN 100 ELSE 50) * 350
          + (IF isNew THEN 20 ELSE 0) * 3500
          + (IF ind[5] THEN compressionBonus ELSE 0) * 3500
          + 20 * 3500) \div 3500

ScoreSum(ind, isNew, compressionBonus) ==
    IF ind[1] = NaN \/ ind[2] = NaN \/ ind[4] = NaN THEN NaN
    ELSE MathRound(  ind[1] * 4 * 14
                   + ind[2] * 2 * 10
                   + ind[4] * 3 * 35
                   + (IF RsiInBand(ind[3]) THEN 100 ELSE 50) * 350
                   + (IF isNew THEN 20 ELSE 0) * 3500
                   + (IF ind[5] THEN compressionBonus ELSE 0) * 3500
                   + 20 * 3500,
                   3500)

explosionScore(ind, isNew) == ScoreSum(ind, isNew, 10)

alertScore(ind, isNew) == ScoreSum(ind, isNew, 25)

\* the if of lines 246-252 without its RSI line
ExplosionAdmittedNoBand(ind, score) ==
    /\ Ge(ind[1], MIN_GAIN_5M * Scale)
    /\ Ge(ind[2], MIN_GAIN_1H * Scale)
    /\ Ge(ind[4], MIN_VOLUME_RATIO)
    /\ Ge(score, MIN_EXPLOSION_SCORE)

\* the if of lines 246-252
ExplosionAdmitted(ind, score) ==
    /\ Ge(ind[1], MIN_GAIN_5M * Scale)
    /\ Ge(ind[2], MIN_GAIN_1H * Scale)
    /\ Ge(ind[4], MIN_VOLUME_RATIO)
    /\ Ge(ind[3], RSI_MIN) /\ Le(ind[3], RSI_MAX)
    /\ Ge(score, MIN_EXPLOSION_SCORE)

\* the if of lines 346-351 with the RSI line of the explosion handler
AlertAdmittedInBand(ind, score) ==
    /\ Ge(ind[1], MIN_GAIN_5M * Scale)
    /\ Ge(ind[2], MIN_GAIN_1H * Scale)
    /\ Ge(ind[4], MIN_VOLUME_RATIO)
    /\ Ge(ind[3], RSI_MIN) /\ Le(ind[3], RSI_MAX)
    /\ Ge(score, MIN_ALERT_SCORE)

\* the if of lines 346-351
AlertAdmitted(ind, score) ==
    /\ Ge(ind[1], MIN_GAIN_5M * Scale)
    /\ Ge(ind[2], MIN_GAIN_1H * Scale)
    /\ Ge(ind[4], MIN_VOLUME_RATIO)
    /\ Ge(score, MIN_ALERT_SCORE)

\* the object pushed at lines 255-281 (sellTarget, stopLoss, support and
\* resistance are fixed multiples of price and are left out)
ExplosionCandidate(t, ind, score, isNew) ==
    [symbol |-> t.symbol, price |-> t.lastPrice,
     change_5m |-> ind[1], change_1h |-> ind[2],
     volume |-> t.baseVolume, volumeRatio |-> ind[4], rsi |-> ind[3],
     volatility |-> ind[6], score |-> score, isNew |-> isNew,
     action |-> IF score >= 80 THEN "COMPRA FUERTE" ELSE "MONITOREAR"]

\* the object pushed at lines 352-370
AlertCandidate(t, ind, score) ==
    [symbol |-> t.symbol, price |-> t.lastPrice,
     change_5m |-> ind[1], change_1h |-> ind[2],
     volume |-> t.baseVolume, volumeRatio |-> ind[4], rsi |-> ind[3],
     score |-> score, compression |-> ind[5],
     action |-> IF score >= 80 THEN "POSIBLE EXPLOSION"
                ELSE IF score >= 60 THEN "MONITOREAR" ELSE "EVITAR"]

\* the head of the loop body without the POPULAR_TOKENS test
SkippedBySuffixOnly(t, minVolume, popular) ==
    \/ ~EndsWith(t.symbol, USDT)
    \/ Lt(t.baseVolume, minVolume)

\* the two tests at the head of the loop body, lines 217 and 221 (317, 321)
Skipped(t, minVolume, popular) ==
    \/ ~EndsWith(t.symbol, USDT)
    \/ t.symbol \in popular
    \/ Lt(t.baseVolume, minVolume)

MinVolume(ep) == IF ep = "explosion" THEN MIN_VOLUME_EXPLOSION ELSE MIN_VOLUME_REGULAR

\* the comparator written as a.score - b.score: ascending
RECURSIVE InsertByScoreAscending(_, _)
InsertByScoreAscending(sorted, c) ==
    IF sorted = <<>> THEN <<c>>
    ELSE IF c.score < Head(sorted).score THEN <<c>> \o sorted
    ELSE <<Head(sorted)>> \o InsertByScoreAscending(Tail(sorted), c)

\* Array.prototype.sort((a, b) => b.score - a.score): stable, descending
RECURSIVE InsertByScore(_, _)
InsertByScore(sorted, c) ==
    IF sorted = <<>> THEN <<c>>
    ELSE IF c.score > Head(sorted).score THEN <<c>> \o sorted
    ELSE <<Head(sorted)>> \o InsertByScore(Tail(sorted), c)

\* the ranked list without its slice(0, TOP_RESULTS)
RECURSIVE SortOnly(_)
SortOnly(cands) ==
    IF cands = <<>> THEN <<>>
    ELSE InsertByScore(SortOnly(SubSeq(cands, 1, Len(cands) - 1)), cands[Len(cands)])

RECURSIVE SortByScore(_)
SortByScore(cands) ==
    IF cands = <<>> THEN <<>>
    ELSE InsertByScore(SortByScore(SubSeq(cands, 1, Len(cands) - 1)),
                       cands[Len(cands)])

\* lines 285-292 (374-381): sort, slice(0, TOP_RESULTS)
TopCandidates(cands) == Slice0(SortByScore(cands), TOP_RESULTS)

(***************************************************************************)
(* Promise.all, lines 226-233: the six promises settle in some order, and  *)
(* the array handed to the handler holds each value at the index of its    *)
(* promise.  order is the order of completion.                             *)
(***************************************************************************)
RECURSIVE Settle(_, _, _)
Settle(results, values, order) ==
    IF order = <<>> THEN results
    ELSE Settle([results EXCEPT ![Head(order)] = values[Head(order)]],
                values, Tail(order))

PromiseAll(values, order) == Settle(values, values, order)

(***************************************************************************)
(* node-cache as the handlers use it (lines 49-50): set stores the value   *)
(* with the store's stdTTL, get returns it until the TTL has run out.      *)
(* An entry keeps the seconds it has left; an entry whose time has run out *)
(* is gone.                                                                *)
(***************************************************************************)
NoEntry == [has |-> FALSE, v |-> <<>>, ttl |-> 0]

CacheSet(v, ttl) == [has |-> TRUE, v |-> v, ttl |-> ttl]

Aged(entry, d) ==
    IF entry.has /\ entry.ttl - d >= 0
    THEN [entry EXCEPT !.ttl = entry.ttl - d]
    ELSE NoEntry

\* if (cached.length): an empty list read as a miss
TruthyWhenNonEmpty(v) == v # <<>>

\* if (cached): what get returned is used when it is truthy, and every
\* array, the empty one included, is
Truthy(v) == TRUE

CacheHit(entry) == entry.has /\ Truthy(entry.v)

(***************************************************************************)
(* State                                                                   *)
(***************************************************************************)
VARIABLES
    now,            \* seconds since the process started
    shortCache,     \* scenario key -> entry
    longCache,      \* the entry under 'newListings'
    popularTokens,  \* the Set POPULAR_TOKENS
    req,            \* the requests being served, by slot
    arrivals,       \* requests received so far
    last,           \* the request answered most recently, as it ended
    fd,             \* one call of fetchData, step by step
    other,          \* a request to one of the routes that are not scenarios
    forwarder       \* one invocation of fetchAndSendAlerts of the forwarder

vars == <<now, shortCache, longCache, popularTokens, req, arrivals, last, fd, other,
          forwarder>>

Endpoints == {"explosion", "alerts"}

IdleReq ==
    [pc |-> "idle", ep |-> "none", hit |-> FALSE,
     ticker |-> "none", listings |-> "none",
     tickerData |-> <<>>, newListings |-> <<>>,
     idx |-> 0, inflight |-> {}, candidates |-> <<>>, evaluated |-> <<>>,
     status |-> 0, body |-> <<>>, error |-> "",
     nTicker |-> 0, nInfo |-> 0, nKlines |-> 0]

IdleFetch == [pc |-> "idle", net |-> <<>>, retries |-> 0, attempts |-> 0,
              data |-> <<>>]

\* the locals and the response of a request to /api/top-gainers,
\* /api/new-listings or /api/analysis/:symbol; res keeps the outcomes of the
\* six indicator calls of an analysis, nFetch the requests made upstream
IdleOther ==
    [pc |-> "idle", route |-> "none", hit |-> FALSE,
     symbol |-> <<>>, price |-> 0, volume |-> 0,
     res |-> <<>>, ind |-> <<>>, explosionScore |-> 0, action |-> "",
     status |-> 0, body |-> <<>>, error |-> "", nFetch |-> 0]

(***************************************************************************)
(* getNewListings, lines 163-181                                           *)
(***************************************************************************)
\* sort((a, b) => new Date(b.onboardDate || 0) - new Date(a.onboardDate || 0))
RECURSIVE InsertByDate(_, _)
InsertByDate(sorted, s) ==
    IF sorted = <<>> THEN <<s>>
    ELSE IF s.onboardDate > Head(sorted).onboardDate THEN <<s>> \o sorted
    ELSE <<Head(sorted)>> \o InsertByDate(Tail(sorted), s)

RECURSIVE SortByDate(_)
SortByDate(list) ==
    IF list = <<>> THEN <<>>
    ELSE InsertByDate(SortByDate(SubSeq(list, 1, Len(list) - 1)), list[Len(list)])

RECURSIVE FilterListings(_, _)
FilterListings(list, popular) ==
    IF list = <<>> THEN <<>>
    ELSE LET rest == FilterListings(Tail(list), popular)
         IN  IF EndsWith(Head(list).symbol, USDT) /\ Head(list).symbol \notin popular
             THEN <<Head(list)>> \o rest ELSE rest

\* lines 170-174 without the slice
RecentSymbolsUncapped(symbols, popular) ==
    LET kept == SortByDate(FilterListings(symbols, popular))
    IN  [i \in 1..Len(kept) |-> kept[i].symbol]

\* lines 170-174
RecentSymbols(symbols, popular) ==
    LET kept == Slice0(SortByDate(FilterListings(symbols, popular)), MAX_CANDIDATES)
    IN  [i \in 1..Len(kept) |-> kept[i].symbol]

\* getNewListings without its catch: the error reaches the handler's catch
ListingsFailureThrown(rq) ==
    [rq EXCEPT !.pc = "done", !.listings = "failed", !.newListings = <<>>,
               !.idx = 0, !.inflight = {}, !.candidates = <<>>, !.status = 500,
               !.error = "Internal server error"]

\* the catch of lines 177-180: the error is logged and [] returned
ListingsOnFailure(rq) == [rq EXCEPT !.listings = "failed", !.newListings = <<>>]

(***************************************************************************)
(* The scenario handlers, lines 204-301 and 304-390                        *)
(***************************************************************************)
\* the handler has returned: the loop's locals are gone
Returned(rq) ==
    [rq EXCEPT !.pc = "done", !.newListings = <<>>, !.idx = 0, !.inflight = {},
               !.candidates = <<>>]

\* the catch of lines 297-300 (386-389)
Respond500(rq) ==
    [Returned(rq) EXCEPT !.status = 500, !.body = <<>>,
                         !.error = "Internal server error"]

\* a failed snapshot read as an empty one
TickerFailureAsEmpty(rq) ==
    [Returned(rq) EXCEPT !.ticker = "failed", !.status = 200, !.body = <<>>]

\* fetchData threw inside the Promise.all of lines 210-213 (310-313): the
\* handler's catch answers
TickerOnFailure(rq) == Respond500([rq EXCEPT !.ticker = "failed"])

\* lines 285-296 (374-385)
Finish(rq) ==
    [Returned(rq) EXCEPT !.status = 200, !.body = TopCandidates(rq.candidates)]

\* the tickers the loop visits: tickerData.slice(0, MAX_CANDIDATES)
LoopData(rq) == Slice0(rq.tickerData, MAX_CANDIDATES)

\* a loop that starts the indicator calls of every ticker it does not skip
\* before it waits for the first
RunLoopAllAtOnce(rq, from, popular) ==
    LET data == LoopData(rq)
        todo == {i \in from..Len(data) : ~Skipped(data[i], MinVolume(rq.ep), popular)}
    IN  IF todo = {} THEN Finish(rq)
        ELSE [rq EXCEPT !.pc = "awaiting",
                        !.idx = CHOOSE i \in todo : \A j \in todo : i <= j,
                        !.inflight = todo]

\* The loop runs without suspending over the tickers it skips, up to the
\* first one it fetches indicators for (idx), or to the end of the handler.
\* The six calls of line 226-233 (326-333) are made for that ticker, and the
\* loop waits for them: inflight holds the tickers whose calls are
\* outstanding.
RunLoop(rq, from, popular) ==
    LET data == LoopData(rq)
        todo == {i \in from..Len(data) : ~Skipped(data[i], MinVolume(rq.ep), popular)}
    IN  IF todo = {} THEN Finish(rq)
        ELSE LET next == CHOOSE i \in todo : \A j \in todo : i <= j
             IN  [rq EXCEPT !.pc = "awaiting", !.idx = next, !.inflight = {next}]

\* lines 235-282 (335-371) for the ticker t and the joined indicators ind
Evaluate(rq, t, ind, values, failed) ==
    LET isNew == Includes(rq.newListings, t.symbol)
        score == IF rq.ep = "explosion" THEN explosionScore(ind, isNew)
                 ELSE alertScore(ind, isNew)
        admitted == IF rq.ep = "explosion" THEN ExplosionAdmitted(ind, score)
                    ELSE AlertAdmitted(ind, score)
        cand == IF rq.ep = "explosion" THEN ExplosionCandidate(t, ind, score, isNew)
                ELSE AlertCandidate(t, ind, score)
    IN  [rq EXCEPT
           !.candidates = IF admitted THEN Append(@, cand) ELSE @,
           !.evaluated = Append(@, [symbol |-> t.symbol, volume |-> t.baseVolume,
                                    ind |-> ind, values |-> values,
                                    failed |-> failed, isNew |-> isNew,
                                    score |-> score, admitted |-> admitted])]

\* the slot of a request that has been answered: free, but for a call of
\* getNewListings that is still running
Vacated(rq) ==
    IF rq.listings = "pending" THEN [IdleReq EXCEPT !.listings = "pending"]
    ELSE IdleReq

\* a handler that stores its list of candidates after every symbol
CommitAsItGoes(r, rq) ==
    /\ req' = [req EXCEPT ![r] = IF rq.pc = "done" THEN Vacated(rq) ELSE rq]
    /\ last' = IF rq.pc = "done" THEN rq ELSE last
    /\ shortCache' =
         IF rq.pc = "done" /\ rq.status = 200 /\ ~rq.hit
         THEN [shortCache EXCEPT ![rq.ep] = CacheSet(rq.body, CACHE_SHORT_TTL)]
         ELSE IF rq.pc = "awaiting" /\ rq.candidates # <<>>
         THEN [shortCache EXCEPT ![rq.ep] = CacheSet(rq.candidates, CACHE_SHORT_TTL)]
         ELSE shortCache

\* a handler that stores what it answers with whether it failed or not, and
\* under the key 'explosion' whichever scenario it serves
CommitAlways(r, rq) ==
    /\ req' = [req EXCEPT ![r] = IF rq.pc = "done" THEN Vacated(rq) ELSE rq]
    /\ last' = IF rq.pc = "done" THEN rq ELSE last
    /\ shortCache' =
         IF rq.pc = "done" /\ ~rq.hit
         THEN [shortCache EXCEPT !["explosion"] = CacheSet(rq.body, CACHE_SHORT_TTL)]
         ELSE shortCache

\* what a step of request r leaves behind: its record; and when the step
\* ended the handler, the response, and the ranked list in the short cache
\* if it ended normally
Commit(r, rq) ==
    /\ req' = [req EXCEPT ![r] = IF rq.pc = "done" THEN Vacated(rq) ELSE rq]
    /\ last' = IF rq.pc = "done" THEN rq ELSE last
    /\ shortCache' =
         IF rq.pc = "done" /\ rq.status = 200 /\ ~rq.hit
         THEN [shortCache EXCEPT ![rq.ep] = CacheSet(rq.body, CACHE_SHORT_TTL)]
         ELSE shortCache

\* a slot that serves no request and has no call of its own outstanding
Free(r) == req[r] = IdleReq

\* A request arrives, and is given the first free slot: lines 206-213
\* (306-313) up to the await.
Arrive(r, ep) ==
    /\ Free(r)
    /\ \A q \in DOMAIN req : q < r => ~Free(q)
    /\ arrivals' = arrivals + 1
    /\ IF CacheHit(shortCache[ep])
       THEN Commit(r, [IdleReq EXCEPT !.pc = "done", !.ep = ep, !.hit = TRUE,
                                      !.status = 200, !.body = shortCache[ep].v])
       ELSE Commit(r, [IdleReq EXCEPT
                            !.pc = "fetching", !.ep = ep, !.ticker = "pending",
                            !.listings = IF CacheHit(longCache) THEN "cached"
                                         ELSE "pending",
                            !.newListings = IF CacheHit(longCache) THEN longCache.v
                                            ELSE <<>>])
    /\ UNCHANGED <<now, longCache, popularTokens, fd, other, forwarder>>

\* The /ticker/24hr call of request r ends.
TickerDone(r, net) ==
    LET rq == req[r]
        res == fetchData(net, DEFAULT_RETRIES)
        got == [rq EXCEPT !.nTicker = @ + res.attempts]
    IN  /\ rq.pc = "fetching"
        /\ rq.ticker = "pending"
        /\ IF ~res.ok
           THEN Commit(r, TickerOnFailure(got))
           ELSE LET have == [got EXCEPT !.ticker = "ok", !.tickerData = res.data]
                IN  IF rq.listings = "pending"
                    THEN Commit(r, have)
                    ELSE Commit(r, RunLoop(have, 1, popularTokens))
        /\ UNCHANGED <<now, longCache, popularTokens, arrivals, fd, other, forwarder>>

\* The /exchangeInfo call of getNewListings, made for request r, ends.
InfoDone(r, net) ==
    LET rq == req[r]
        res == fetchData(net, DEFAULT_RETRIES)
        got == [rq EXCEPT !.nInfo = @ + res.attempts]
        recentSymbols == RecentSymbols(res.data, popularTokens)
        have == IF res.ok
                THEN [got EXCEPT !.listings = "ok", !.newListings = recentSymbols]
                ELSE ListingsOnFailure(got)
    IN  /\ rq.listings = "pending"
        /\ rq.pc # "done"
        /\ longCache' = IF res.ok THEN CacheSet(recentSymbols, CACHE_LONG_TTL)
                        ELSE longCache
        /\ IF rq.pc = "idle" THEN Commit(r, IdleReq)
           ELSE IF have.pc = "fetching" /\ have.ticker = "ok"
           THEN Commit(r, RunLoop(have, 1, popularTokens))
           ELSE Commit(r, have)
        /\ UNCHANGED <<now, popularTokens, arrivals, fd, other, forwarder>>

\* The six indicator calls for the ticker at idx have settled.
JoinSymbol(r, nets, order) ==
    LET rq == req[r]
        t == LoopData(rq)[rq.idx]
        res == [k \in 1..6 |-> fetchData(nets[k], DEFAULT_RETRIES)]
        values == << calculateChange(res[1]), calculateChange(res[2]),
                     calculateRSI(res[3]),
                     calculateVolumeRatio(res[4], t.baseVolume),
                     calculateCompression(res[5]), calculateVolatility(res[6]) >>
        ind == PromiseAll(values, order)
        failed == {k \in 1..6 : ~res[k].ok}
        got == [rq EXCEPT !.nKlines = @ + SumSeq([k \in 1..6 |-> res[k].attempts])]
    IN  /\ rq.pc = "awaiting"
        /\ Commit(r, RunLoop(Evaluate(got, t, ind, values, failed), rq.idx + 1,
                             popularTokens))
        /\ UNCHANGED <<now, longCache, popularTokens, arrivals, fd, other, forwarder>>

\* d seconds pass.
Tick(d) ==
    /\ now' = now + d
    /\ shortCache' = [k \in DOMAIN shortCache |-> Aged(shortCache[k], d)]
    /\ longCache' = Aged(longCache, d)
    /\ UNCHANGED <<popularTokens, req, arrivals, last, fd, other, forwarder>>

(***************************************************************************)
(* The other routes: /api/top-gainers (lines 184-201), /api/new-listings   *)
(* (393-401) and /api/analysis/:symbol (404-450).  One request to them is  *)
(* followed at a time, in other.                                           *)
(***************************************************************************)
OtherFree == other.pc \in {"idle", "done"}

\* the filter of line 188
RECURSIVE FilterGainers(_, _)
FilterGainers(data, popular) ==
    IF data = <<>> THEN <<>>
    ELSE LET d == Head(data)
             rest == FilterGainers(Tail(data), popular)
         IN  IF d.symbol \notin popular /\ EndsWith(d.symbol, USDT)
                /\ Ge(d.baseVolume, MIN_VOLUME_REGULAR)
             THEN <<d>> \o rest ELSE rest

\* sort((a, b) => parseFloat(b.priceChangePercent) - parseFloat(a.priceChangePercent))
RECURSIVE InsertByChange(_, _)
InsertByChange(sorted, d) ==
    IF sorted = <<>> THEN <<d>>
    ELSE IF d.priceChangePercent > Head(sorted).priceChangePercent THEN <<d>> \o sorted
    ELSE <<Head(sorted)>> \o InsertByChange(Tail(sorted), d)

RECURSIVE SortByChange(_)
SortByChange(data) ==
    IF data = <<>> THEN <<>>
    ELSE InsertByChange(SortByChange(SubSeq(data, 1, Len(data) - 1)), data[Len(data)])

\* lines 187-195
TopGainers(data, popular) ==
    LET kept == Slice0(SortByChange(FilterGainers(data, popular)), TOP_RESULTS)
    IN  [i \in 1..Len(kept) |->
            [symbol |-> kept[i].symbol, price |-> kept[i].lastPrice,
             priceChangePercent |-> kept[i].priceChangePercent]]

\* GET /api/top-gainers is received: up to the await of line 186
TopGainersArrive ==
    /\ OtherFree
    /\ other' = [IdleOther EXCEPT !.pc = "fetching", !.route = "top-gainers"]
    /\ UNCHANGED <<now, shortCache, longCache, popularTokens, req, arrivals, last, fd, forwarder>>

\* its /ticker/24hr call ends: lines 187-200
TopGainersDone(net) ==
    LET res == fetchData(net, DEFAULT_RETRIES)
        got == [other EXCEPT !.pc = "done", !.nFetch = @ + res.attempts]
    IN  /\ other.pc = "fetching" /\ other.route = "top-gainers"
        /\ other' = IF res.ok
                    THEN [got EXCEPT !.status = 200,
                                     !.body = TopGainers(res.data, popularTokens)]
                    ELSE [got EXCEPT !.status = 500,
                                     !.error = "Error fetching top gainers"]
        /\ UNCHANGED <<now, shortCache, longCache, popularTokens, req, arrivals, last, fd, forwarder>>

\* listings.map(symbol => ({ symbol })), line 396
SymbolObjects(listings) == [i \in 1..Len(listings) |-> [symbol |-> listings[i]]]

\* GET /api/new-listings is received: getNewListings up to its await, or to
\* its return when the long cache answers (lines 165-167)
NewListingsArrive ==
    /\ OtherFree
    /\ other' = IF CacheHit(longCache)
                THEN [IdleOther EXCEPT !.pc = "done", !.route = "new-listings",
                                       !.hit = TRUE, !.status = 200,
                                       !.body = SymbolObjects(longCache.v)]
                ELSE [IdleOther EXCEPT !.pc = "fetching", !.route = "new-listings"]
    /\ UNCHANGED <<now, shortCache, longCache, popularTokens, req, arrivals, last, fd, forwarder>>

\* its /exchangeInfo call ends: lines 169-180, then 396
NewListingsDone(net) ==
    LET res == fetchData(net, DEFAULT_RETRIES)
        recentSymbols == RecentSymbols(res.data, popularTokens)
        listings == IF res.ok THEN recentSymbols ELSE <<>>
    IN  /\ other.pc = "fetching" /\ other.route = "new-listings"
        /\ longCache' = IF res.ok THEN CacheSet(recentSymbols, CACHE_LONG_TTL)
                        ELSE longCache
        /\ other' = [other EXCEPT !.pc = "done", !.nFetch = @ + res.attempts,
                                  !.res = << [ok |-> res.ok, data |-> res.data] >>,
                                  !.status = 200, !.body = SymbolObjects(listings)]
        /\ UNCHANGED <<now, shortCache, popularTokens, req, arrivals, last, fd, forwarder>>

LowerCase == <<"a","b","c","d","e","f","g","h","i","j","k","l","m",
               "n","o","p","q","r","s","t","u","v","w","x","y","z">>
UpperCase == <<"A","B","C","D","E","F","G","H","I","J","K","L","M",
               "N","O","P","Q","R","S","T","U","V","W","X","Y","Z">>

\* String.prototype.toUpperCase
ToUpperCase(str) ==
    [i \in 1..Len(str) |->
        IF \E k \in 1..Len(LowerCase) : LowerCase[k] = str[i]
        THEN UpperCase[CHOOSE k \in 1..Len(LowerCase) : LowerCase[k] = str[i]]
        ELSE str[i]]

\* the score of lines 420-426
analysisScore(ind) ==
    IF ind[1] = NaN \/ ind[2] = NaN \/ ind[4] = NaN THEN NaN
    ELSE MathRound(  ind[1] * 4 * 14
                   + ind[2] * 2 * 10
                   + ind[4] * 3 * 35
                   + (IF RsiInBand(ind[3]) THEN 100 ELSE 50) * 350
                   + (IF ind[5] THEN 10 ELSE 0) * 3500,
                   3500)

\* GET /api/analysis/:symbol is received: lines 406-407 up to the await
AnalysisArrive(symbol) ==
    /\ OtherFree
    /\ other' = [IdleOther EXCEPT !.pc = "fetching", !.route = "analysis",
                                  !.symbol = ToUpperCase(symbol)]
    /\ UNCHANGED <<now, shortCache, longCache, popularTokens, req, arrivals, last, fd, forwarder>>

\* its /ticker/24hr?symbol= call ends: lines 408-418 up to the await, or the
\* catch of lines 446-449
AnalysisTicker(net) ==
    LET res == fetchData(net, DEFAULT_RETRIES)
        got == [other EXCEPT !.nFetch = @ + res.attempts]
    IN  /\ other.pc = "fetching" /\ other.route = "analysis"
        /\ other' = IF res.ok
                    THEN [got EXCEPT !.pc = "awaiting", !.price = res.data.lastPrice,
                                     !.volume = res.data.baseVolume]
                    ELSE [got EXCEPT !.pc = "done", !.status = 500,
                                     !.error = "Error in individual analysis"]
        /\ UNCHANGED <<now, shortCache, longCache, popularTokens, req, arrivals, last, fd, forwarder>>

\* its six indicator calls have settled: lines 411-445
AnalysisJoin(nets, order) ==
    LET res == [k \in 1..6 |-> fetchData(nets[k], DEFAULT_RETRIES)]
        values == << calculateChange(res[1]), calculateChange(res[2]),
                     calculateRSI(res[3]),
                     calculateVolumeRatio(res[4], other.volume),
                     calculateCompression(res[5]), calculateVolatility(res[6]) >>
        ind == PromiseAll(values, order)
        score == analysisScore(ind)
    IN  /\ other.pc = "awaiting"
        /\ other' = [other EXCEPT
                        !.pc = "done", !.status = 200,
                        !.nFetch = @ + SumSeq([k \in 1..6 |-> res[k].attempts]),
                        !.res = [k \in 1..6 |-> [ok |-> res[k].ok, data |-> res[k].data]],
                        !.ind = ind, !.explosionScore = score,
                        !.action = IF Ge(score, 80) THEN "COMPRA FUERTE"
                                   ELSE "MONITOREAR"]
        /\ UNCHANGED <<now, shortCache, longCache, popularTokens, req, arrivals, last, fd, forwarder>>

(***************************************************************************)
(* The forwarder, src/index.js: fetchAndSendAlerts (lines 52-82) polls the  *)
(* explosion-candidates endpoint and sends a Telegram message for each     *)
(* token of the list that scores high enough.  forwarder.sent is the       *)
(* messages the channel has received, in the order of sending.             *)
(***************************************************************************)
\* async function fetchAndSendAlerts(retries = 2)
ALERT_RETRIES == 2
\* tokens.slice(0, 10)
ALERT_TOP == 10
\* token.explosionScore >= 80, and >= 60
URGENT_SCORE == 80
MODERATE_SCORE == 60

IdleForwarder ==
    [pc |-> "idle", retries |-> 0, calls |-> 0, tokens |-> <<>>, pos |-> 0,
     sent |-> <<>>, outcome |-> "none"]

\* the message of lines 64 and 68, as the channel tells the two forms apart
formatTokenMessage(token) ==
    [symbol |-> token.symbol, explosionScore |-> token.explosionScore,
     form |-> IF Ge(token.explosionScore, URGENT_SCORE) THEN "urgent" ELSE "moderate"]

\* the loop of lines 62-72 from position from of top, up to the await of
\* the first sendMessage, or to the end of the function
SendLoop(f, from) ==
    LET top == Slice0(f.tokens, ALERT_TOP)
        todo == {i \in from..Len(top) : Ge(top[i].explosionScore, MODERATE_SCORE)}
    IN  IF todo = {} THEN [f EXCEPT !.pc = "done", !.pos = 0, !.outcome = "returned"]
        ELSE [f EXCEPT !.pc = "sending",
                       !.pos = CHOOSE i \in todo : \A j \in todo : i <= j]

\* the catch of lines 73-81: wait a second and call again with one retry
\* less, or log the failure
CatchAlerts(f) ==
    IF f.retries > 0
    THEN [f EXCEPT !.pc = "waiting", !.retries = @ - 1, !.tokens = <<>>, !.pos = 0]
    ELSE [f EXCEPT !.pc = "done", !.tokens = <<>>, !.pos = 0, !.outcome = "failed"]

\* setInterval(fetchAndSendAlerts) or the call at start: line 84 (91), up to
\* the await of axios.get
FetchAndSendAlerts ==
    /\ forwarder.pc = "idle"
    /\ forwarder' = [IdleForwarder EXCEPT !.pc = "fetching", !.retries = ALERT_RETRIES,
                                          !.calls = 1]
    /\ UNCHANGED <<now, shortCache, longCache, popularTokens, req, arrivals, last, fd,
                   other>>

\* axios.get resolves with data: lines 54-62.  data.isArray tells an array
\* from any other body.
AlertsFetched(data) ==
    /\ forwarder.pc = "fetching"
    /\ forwarder' =
         IF ~data.isArray \/ Len(data.items) = 0
         THEN [forwarder EXCEPT !.pc = "done", !.outcome = "no tokens"]
         ELSE SendLoop([forwarder EXCEPT !.tokens = data.items], 1)
    /\ UNCHANGED <<now, shortCache, longCache, popularTokens, req, arrivals, last, fd,
                   other>>

\* axios.get rejects
AlertsFetchFails ==
    /\ forwarder.pc = "fetching"
    /\ forwarder' = CatchAlerts(forwarder)
    /\ UNCHANGED <<now, shortCache, longCache, popularTokens, req, arrivals, last, fd,
                   other>>

\* bot.sendMessage resolves: the message is in the channel, and the loop
\* goes on
MessageSent ==
    LET token == forwarder.tokens[forwarder.pos]
        msg == formatTokenMessage(token)
        got == [forwarder EXCEPT
                   !.sent = Append(@, [symbol |-> msg.symbol,
                                       explosionScore |-> msg.explosionScore,
                                       form |-> msg.form,
                                       position |-> forwarder.pos,
                                       call |-> forwarder.calls])]
    IN  /\ forwarder.pc = "sending"
        /\ forwarder' = SendLoop(got, forwarder.pos + 1)
        /\ UNCHANGED <<now, shortCache, longCache, popularTokens, req, arrivals, last,
                       fd, other>>

\* bot.sendMessage rejects: nothing reaches the channel
MessageFails ==
    /\ forwarder.pc = "sending"
    /\ forwarder' = CatchAlerts(forwarder)
    /\ UNCHANGED <<now, shortCache, longCache, popularTokens, req, arrivals, last, fd,
                   other>>

\* the timer of line 76 fires: return fetchAndSendAlerts(retries - 1)
AlertsRetry ==
    /\ forwarder.pc = "waiting"
    /\ forwarder' = [forwarder EXCEPT !.pc = "fetching", !.calls = @ + 1]
    /\ UNCHANGED <<now, shortCache, longCache, popularTokens, req, arrivals, last, fd,
                   other>>

(***************************************************************************)
(* One call fetchData(url), attempt by attempt (lines 74-87): fd.net is    *)
(* what the network does on the successive attempts, fd.attempts the       *)
(* requests made so far.                                                   *)
(***************************************************************************)
\* axios.get resolves: line 77
AttemptResolves ==
    /\ fd.pc = "calling"
    /\ fd.net[fd.attempts + 1].ok
    /\ fd' = [fd EXCEPT !.pc = "returned", !.attempts = @ + 1,
                        !.data = fd.net[fd.attempts + 1].data]
    /\ UNCHANGED <<now, shortCache, longCache, popularTokens, req, arrivals, last, other, forwarder>>

\* axios.get rejects with retries left: lines 79-82
AttemptFailsRetry ==
    /\ fd.pc = "calling"
    /\ ~fd.net[fd.attempts + 1].ok
    /\ MayRetry(fd.retries)
    /\ fd' = [fd EXCEPT !.attempts = @ + 1, !.retries = @ - 1]
    /\ UNCHANGED <<now, shortCache, longCache, popularTokens, req, arrivals, last, other, forwarder>>

\* axios.get rejects with no retry left: lines 84-85
AttemptFailsThrow ==
    /\ fd.pc = "calling"
    /\ ~fd.net[fd.attempts + 1].ok
    /\ ~MayRetry(fd.retries)
    /\ fd' = [fd EXCEPT !.pc = "thrown", !.attempts = @ + 1]
    /\ UNCHANGED <<now, shortCache, longCache, popularTokens, req, arrivals, last, other, forwarder>>

(***************************************************************************)
(* Inputs: what the exchange answers                                       *)
(***************************************************************************)
Candle(c, v) == [close |-> c, volume |-> v]

\* two candles whose change is x hundredths of a percent
Klines2(x) == << Candle(10000, 0), Candle(10000 + x, 0) >>

\* RSI_PERIOD + 1 candles with one rise of g, one fall of l, then flat
KlinesRsi(g, l) ==
    [i \in 1..(RSI_PERIOD + 1) |->
        Candle(IF i = 1 THEN 1000 ELSE IF i = 2 THEN 1000 + g ELSE 1000 + g - l, 0)]

\* seven daily candles of volume v
KlinesDaily(v) == [i \in 1..7 |-> Candle(100, v)]

\* 20 candles: flat (compressed), or swinging by 2 percent
Klines20(flat) ==
    [i \in 1..20 |-> Candle(IF flat \/ i % 2 = 1 THEN 10000 ELSE 10200, 0)]

\* the data of the six indicator calls of one symbol, in the order of
\* lines 227-232
Market(c5, c1, g, l, avgVolume, flat) ==
    << Klines2(c5), Klines2(c1), KlinesRsi(g, l), KlinesDaily(avgVolume),
       Klines20(flat), Klines20(flat) >>

\* a call that succeeds at once, succeeds on its first retry, or fails
\* three times (a fourth attempt would succeed)
NetOk(d) == << Ok(d) >>
NetRetry(d) == << Fail, Ok(d) >>
NetDown(d) == << Fail, Fail, Fail, Ok(d) >>

\* the six calls of a symbol: those in down fail, the others succeed
SymbolNets(market, down) ==
    [k \in 1..6 |-> IF k \in down THEN NetDown(market[k]) ELSE NetOk(market[k])]

Ticker(symbol, price, volume) ==
    [symbol |-> symbol, lastPrice |-> price, baseVolume |-> volume]

Listing(symbol, date) == [symbol |-> symbol, onboardDate |-> date]

BTCUSDT == <<"B","T","C">> \o USDT
ETHBTC == <<"E","T","H","B","T","C">>
USDTTRY == USDT \o <<"T","R","Y">>
PEPEUSDT == <<"P","E","P","E">> \o USDT
WIFUSDT == <<"W","I","F">> \o USDT

\* momentum, volume and RSI 55 in the band, compressed: admitted by both
HotMarket == Market(400, 500, 55, 45, 20000, TRUE)
\* the same with RSI 100: outside the band
OverboughtMarket == Market(400, 500, 10, 0, 20000, TRUE)
\* no momentum
ColdMarket == Market(0, 100, 50, 50, 20000, FALSE)

SmallMarkets == {HotMarket, ColdMarket}

SmallDown == {{}, {3}}

SmallSnapshots ==
    { << Ticker(BTCUSDT, 60000, 90000), Ticker(ETHBTC, 5, 90000),
         Ticker(USDTTRY, 30, 90000), Ticker(PEPEUSDT, 2, 40000) >>,
      << Ticker(WIFUSDT, 3, 25000) >> }

SmallListings ==
    { << Listing(BTCUSDT, 1), Listing(PEPEUSDT, 5), Listing(ETHBTC, 9) >> }

Orders == { <<1, 2, 3, 4, 5, 6>>, <<2, 1, 4, 3, 5, 6>> }

(***************************************************************************)
(* Specifications                                                          *)
(***************************************************************************)
MaxArrivals == 2
TickStep == 61
MaxTime == 122

\* the requests the server has in progress at one time: two slots
Reqs == {1, 2}

InitServer ==
    /\ now = 0
    /\ shortCache = [k \in Endpoints |-> NoEntry]
    /\ longCache = NoEntry
    /\ popularTokens = POPULAR_TOKENS
    /\ req = [r \in Reqs |-> IdleReq]
    /\ arrivals = 0
    /\ last = IdleReq
    /\ other = IdleOther

Init ==
    /\ InitServer
    /\ fd = IdleFetch
    /\ forwarder = IdleForwarder

Next ==
    \/ \E r \in Reqs, ep \in Endpoints : arrivals < MaxArrivals /\ Arrive(r, ep)
    \/ \E r \in Reqs, d \in SmallSnapshots : TickerDone(r, NetOk(d))
    \/ \E r \in Reqs : TickerDone(r, NetDown(<<>>))
    \/ \E r \in Reqs, d \in SmallListings : InfoDone(r, NetRetry(d))
    \/ \E r \in Reqs : InfoDone(r, NetDown(<<>>))
    \/ \E r \in Reqs, m \in SmallMarkets, down \in SmallDown :
          JoinSymbol(r, SymbolNets(m, down), <<1, 2, 3, 4, 5, 6>>)
    \/ now + TickStep <= MaxTime /\ Tick(TickStep)

Spec == Init /\ [][Next]_vars

(***************************************************************************)
(* SpecFetch: one call of fetchData against every behaviour of the network *)
(* over four attempts.                                                     *)
(***************************************************************************)
Outcomes == {Fail, Ok(<<"a">>), Ok(<<"b">>)}

FetchNets == {<<a, b, c, d>> : a \in Outcomes, b \in Outcomes, c \in Outcomes, d \in Outcomes}

InitFetch ==
    /\ InitServer
    /\ forwarder = IdleForwarder
    /\ \E net \in FetchNets :
          fd = [pc |-> "calling", net |-> net, retries |-> DEFAULT_RETRIES,
                attempts |-> 0, data |-> <<>>]

NextFetch == AttemptResolves \/ AttemptFailsRetry \/ AttemptFailsThrow

SpecFetch == InitFetch /\ [][NextFetch]_vars

(***************************************************************************)
(* SpecScore: one request over a snapshot of one ticker, for every         *)
(* combination of indicator values around the admission thresholds.        *)
(***************************************************************************)
ScoreSnapshots ==
    { << Ticker(PEPEUSDT, 2, v) >> : v \in {NaN, 19999, 20000, 29999, 30000, 40000} }

ScoreMarkets ==
    { Market(c5, c1, gl[1], gl[2], avg, flat) :
        c5 \in {-312, 299, 300, 2500}, c1 \in {399, 400},
        gl \in {<<39, 61>>, <<40, 60>>, <<70, 30>>, <<71, 29>>, <<10, 0>>},
        avg \in {13334, 20000, 20001}, flat \in BOOLEAN }
    \cup {HotMarket}

ScoreListings ==
    { << Listing(PEPEUSDT, 5) >>, << Listing(WIFUSDT, 5) >> }

NextScore ==
    \/ \E r \in Reqs, ep \in Endpoints : arrivals = 0 /\ Arrive(r, ep)
    \/ \E r \in Reqs, d \in ScoreSnapshots : TickerDone(r, NetOk(d))
    \/ \E r \in Reqs, d \in ScoreListings : InfoDone(r, NetOk(d))
    \/ \E r \in Reqs, m \in ScoreMarkets :
          JoinSymbol(r, SymbolNets(m, {}), <<1, 2, 3, 4, 5, 6>>)

SpecScore == Init /\ [][NextScore]_vars

(***************************************************************************)
(* SpecDegrade: one request over a snapshot of two eligible tickers, with  *)
(* every subset of each symbol's six indicator calls failing.              *)
(***************************************************************************)
DegradeSnapshots ==
    { << Ticker(PEPEUSDT, 2, 40000), Ticker(BTCUSDT, 60000, 90000),
         Ticker(WIFUSDT, 3, 40000) >> }

NextDegrade ==
    \/ \E r \in Reqs, ep \in Endpoints : arrivals = 0 /\ Arrive(r, ep)
    \/ \E r \in Reqs, d \in DegradeSnapshots : TickerDone(r, NetRetry(d))
    \/ \E r \in Reqs, d \in SmallListings : InfoDone(r, NetOk(d))
    \/ \E r \in Reqs, down \in SUBSET (1..6) :
          JoinSymbol(r, SymbolNets(HotMarket, down), <<1, 2, 3, 4, 5, 6>>)

SpecDegrade == Init /\ [][NextDegrade]_vars

(***************************************************************************)
(* SpecRank: one request over snapshots with more admissible tickers than  *)
(* TOP_RESULTS, with scores that repeat and that are not in ticker order.  *)
(***************************************************************************)
TokenLetters == <<"A","B","C","D","E","F","G","H","I","J","K","L","M","N">>

Token(i) == <<"T", TokenLetters[i]>> \o USDT

\* how many tickers beyond TOP_RESULTS the large snapshot holds
ExtraTickers == 2

LargeSnapshot ==
    << Ticker(BTCUSDT, 60000, 90000) >>
    \o [i \in 1..(TOP_RESULTS + ExtraTickers) |-> Ticker(Token(i), i, 40000)]
    \o << Ticker(ETHBTC, 5, 90000) >>

RankSnapshots == { LargeSnapshot, SubSeq(LargeSnapshot, 1, 4) }

\* the market of the ticker at position i of the snapshot: change5m between
\* 3 and 9 percent in an order that is not the tickers'; the first tickers
\* may also be overbought or without momentum
RankMarkets(i) ==
    { Market(300 + 100 * ((i * 5) % 7), 500, 55, 45, 20000, TRUE) }
    \cup (IF i <= 4 THEN {OverboughtMarket, ColdMarket} ELSE {})

NextRank ==
    \/ \E r \in Reqs, ep \in Endpoints : arrivals = 0 /\ Arrive(r, ep)
    \/ \E r \in Reqs, d \in RankSnapshots : TickerDone(r, NetOk(d))
    \/ \E r \in Reqs, d \in SmallListings : InfoDone(r, NetOk(d))
    \/ \E r \in Reqs, order \in Orders :
          \E m \in RankMarkets(req[r].idx) : JoinSymbol(r, SymbolNets(m, {}), order)

SpecRank == Init /\ [][NextRank]_vars

(***************************************************************************)
(* SpecPool: one request over snapshots longer than MAX_CANDIDATES, made   *)
(* of tickers the loop skips but for eligible ones at the first position   *)
(* and around position MAX_CANDIDATES.                                     *)
(***************************************************************************)
PoolPositions == {1, MAX_CANDIDATES, MAX_CANDIDATES + 1, MAX_CANDIDATES + 2}

PoolSnapshot(eligible) ==
    [i \in 1..(MAX_CANDIDATES + 2) |->
        IF i \in eligible
        THEN Ticker(Token(IF i = 1 THEN 1 ELSE i - MAX_CANDIDATES + 3), i, 40000)
        ELSE IF i % 2 = 0 THEN Ticker(BTCUSDT, 60000, 90000)
        ELSE Ticker(ETHBTC, 5, 90000)]

PoolSnapshots == { PoolSnapshot(eligible) : eligible \in SUBSET PoolPositions }

NextPool ==
    \/ \E r \in Reqs, ep \in Endpoints : arrivals = 0 /\ Arrive(r, ep)
    \/ \E r \in Reqs, d \in PoolSnapshots : TickerDone(r, NetOk(d))
    \/ \E r \in Reqs, d \in SmallListings : InfoDone(r, NetOk(d))
    \/ \E r \in Reqs, m \in SmallMarkets, down \in SmallDown :
          JoinSymbol(r, SymbolNets(m, down), <<1, 2, 3, 4, 5, 6>>)

SpecPool == Init /\ [][NextPool]_vars

(***************************************************************************)
(* SpecAnalysis: requests to /api/analysis/:symbol, over indicator data    *)
(* around the thresholds, windows shorter than the indicators ask for, RSI *)
(* windows and windows around the compression threshold.                   *)
(***************************************************************************)
AnalysisSymbols == { <<"p","e","p","e","u","s","d","t">>, PEPEUSDT }

AnalysisTickers == { Ticker(PEPEUSDT, 2, v) : v \in {NaN, 30000, 40000} }

\* every indicator call answered with the same n candles, n from none to 3
ShortMarket(n) == [k \in 1..6 |-> [i \in 1..n |-> Candle(10000 + 100 * i, 5000)]]

ShortMarkets == { ShortMarket(n) : n \in 0..3 }

\* an RSI window of RSI_PERIOD + 1 candles, or of one more when lead > 0:
\* then the first delta, a fall of lead, lies before the last RSI_PERIOD
RsiData(lead, g, l) ==
    IF lead = 0 THEN KlinesRsi(g, l)
    ELSE << Candle(1000 + lead, 0) >> \o KlinesRsi(g, l)

RsiMarkets ==
    { << Klines2(0), Klines2(0), RsiData(lead, g, l), KlinesDaily(20000),
         Klines20(TRUE), Klines20(TRUE) >> :
        lead \in {0, 30}, g \in {0, 10, 45, 55}, l \in {0, 10, 45, 55} }

\* a window that rises by x hundredths of a percent and then stays: its
\* two changes are x and 0, so their standard deviation is x / 2
KlinesStep(x) == << Candle(10000, 0), Candle(10000 + x, 0), Candle(10000 + x, 0) >>

\* standard deviations just below, at and just above COMPRESSION_THRESHOLD,
\* and the 20-candle windows
CompressionWindows ==
    { KlinesStep(x) : x \in {0, 2 * COMPRESSION_THRESHOLD - 1, 2 * COMPRESSION_THRESHOLD,
                             2 * COMPRESSION_THRESHOLD + 1} }
      \cup { Klines20(flat) : flat \in BOOLEAN }

CompressionMarkets ==
    { << Klines2(0), Klines2(0), KlinesRsi(55, 45), KlinesDaily(20000), w, w >> :
        w \in CompressionWindows }

AnalysisMarkets ==
    ScoreMarkets \cup {OverboughtMarket, ColdMarket} \cup ShortMarkets \cup RsiMarkets
      \cup CompressionMarkets

NextAnalysis ==
    \/ \E symbol \in AnalysisSymbols : AnalysisArrive(symbol)
    \/ \E d \in AnalysisTickers : AnalysisTicker(NetRetry(d))
    \/ AnalysisTicker(NetDown(<<>>))
    \/ \E m \in AnalysisMarkets, down \in SmallDown, order \in Orders :
          AnalysisJoin(SymbolNets(m, down), order)

SpecAnalysis == Init /\ [][NextAnalysis]_vars

(***************************************************************************)
(* SpecRace: requests in progress together over a snapshot with two        *)
(* symbols to evaluate, so that a run holds candidates while another ends. *)
(***************************************************************************)
RaceSnapshots ==
    { << Ticker(PEPEUSDT, 2, 40000), Ticker(BTCUSDT, 60000, 90000),
         Ticker(WIFUSDT, 3, 40000) >> }

\* admitted, or not
RaceMarkets == {HotMarket, ColdMarket}

NextRace ==
    \/ \E r \in Reqs, ep \in Endpoints : arrivals < MaxArrivals /\ Arrive(r, ep)
    \/ \E r \in Reqs, d \in RaceSnapshots : TickerDone(r, NetOk(d))
    \/ \E r \in Reqs : TickerDone(r, NetDown(<<>>))
    \/ \E r \in Reqs, d \in SmallListings : InfoDone(r, NetOk(d))
    \/ \E r \in Reqs, m \in RaceMarkets :
          JoinSymbol(r, SymbolNets(m, {}), <<1, 2, 3, 4, 5, 6>>)
    \/ now + TickStep <= MaxTime /\ Tick(TickStep)

SpecRace == Init /\ [][NextRace]_vars

(***************************************************************************)
(* SpecFrame: the five routes together, the scenario requests two at a     *)
(* time and one request to the other routes at a time.                     *)
(***************************************************************************)
\* a ticker of the snapshot as /api/top-gainers reads it
Gainer(symbol, price, volume, change) ==
    [symbol |-> symbol, lastPrice |-> price, baseVolume |-> volume,
     priceChangePercent |-> change]

GainerSnapshots ==
    { << Gainer(BTCUSDT, 60000, 90000, 900), Gainer(WIFUSDT, 3, 25000, 150),
         Gainer(ETHBTC, 5, 90000, 700), Gainer(PEPEUSDT, 2, 40000, 480) >> }

FrameSnapshots == { << Ticker(BTCUSDT, 60000, 90000), Ticker(PEPEUSDT, 2, 40000) >> }

NextFrame ==
    \/ \E r \in Reqs, ep \in Endpoints : arrivals < MaxArrivals /\ Arrive(r, ep)
    \/ \E r \in Reqs, d \in FrameSnapshots : TickerDone(r, NetOk(d))
    \/ \E r \in Reqs : TickerDone(r, NetDown(<<>>))
    \/ \E r \in Reqs, d \in SmallListings : InfoDone(r, NetOk(d))
    \/ \E r \in Reqs : JoinSymbol(r, SymbolNets(HotMarket, {}), <<1, 2, 3, 4, 5, 6>>)
    \/ now + TickStep <= MaxTime /\ Tick(TickStep)
    \/ TopGainersArrive
    \/ \E d \in GainerSnapshots : TopGainersDone(NetOk(d))
    \/ TopGainersDone(NetDown(<<>>))
    \/ NewListingsArrive
    \/ \E d \in SmallListings : NewListingsDone(NetOk(d))
    \/ NewListingsDone(NetDown(<<>>))
    \/ AnalysisArrive(PEPEUSDT)
    \/ AnalysisTicker(NetOk(Ticker(PEPEUSDT, 2, 40000)))
    \/ AnalysisTicker(NetDown(<<>>))
    \/ AnalysisJoin(SymbolNets(HotMarket, {}), <<1, 2, 3, 4, 5, 6>>)

SpecFrame == Init /\ [][NextFrame]_vars

(***************************************************************************)
(* SpecListings: calls of getNewListings, from /api/new-listings and from  *)
(* scenario requests, over the life of a long-cache entry.                 *)
(***************************************************************************)
ListingSymbol(i) ==
    << TokenLetters[((i - 1) \div Len(TokenLetters)) + 1],
       TokenLetters[((i - 1) % Len(TokenLetters)) + 1] >> \o USDT

\* more symbols than MAX_CANDIDATES keeps, a popular token and a pair not
\* quoted in USDT among them, their onboardDate in no order
BigListings ==
    [i \in 1..(MAX_CANDIDATES + 3) |->
        IF i = 2 THEN Listing(BTCUSDT, 40)
        ELSE IF i = 4 THEN Listing(ETHBTC, 50)
        ELSE Listing(ListingSymbol(i), (i * 7) % (MAX_CANDIDATES + 3))]

ListingInputs == SmallListings \cup {BigListings, << Listing(BTCUSDT, 1) >>}

\* half the life of a long-cache entry, and more than all of it
LongSteps == {CACHE_LONG_TTL \div 2, CACHE_LONG_TTL + 1}

MaxLongTime == CACHE_LONG_TTL + 1

NextListings ==
    \/ NewListingsArrive
    \/ \E d \in ListingInputs : NewListingsDone(NetOk(d))
    \/ NewListingsDone(NetDown(<<>>))
    \/ \E r \in Reqs, ep \in Endpoints : arrivals < MaxArrivals /\ Arrive(r, ep)
    \/ \E r \in Reqs : TickerDone(r, NetDown(<<>>))
    \/ \E r \in Reqs, d \in SmallListings : InfoDone(r, NetOk(d))
    \/ \E r \in Reqs : InfoDone(r, NetDown(<<>>))
    \/ \E d \in LongSteps : now + d <= MaxLongTime /\ Tick(d)

SpecListings == Init /\ [][NextListings]_vars

(***************************************************************************)
(* SpecForwarder: one invocation of fetchAndSendAlerts against every       *)
(* outcome of its fetches and sends.                                       *)
(***************************************************************************)
AlertToken(symbol, score) == [symbol |-> symbol, explosionScore |-> score]

ArrayOf(items) == [isArray |-> TRUE, items |-> items]

\* scores around both thresholds, one that is not a number, and two tokens
\* past position ALERT_TOP that score high
LongAlertList ==
    [i \in 1..(ALERT_TOP + 2) |->
        AlertToken(ListingSymbol(i),
                   << 85, MODERATE_SCORE - 1, MODERATE_SCORE, URGENT_SCORE - 1,
                      URGENT_SCORE, NaN, 30, 65, 10, 70, 95, 61 >>[i])]

AlertResponses ==
    { ArrayOf(LongAlertList),
      ArrayOf(<< AlertToken(PEPEUSDT, 70), AlertToken(WIFUSDT, 85) >>),
      ArrayOf(<< AlertToken(WIFUSDT, 40) >>),
      ArrayOf(<<>>),
      [isArray |-> FALSE, items |-> <<>>] }

NextForwarder ==
    \/ FetchAndSendAlerts
    \/ \E data \in AlertResponses : AlertsFetched(data)
    \/ AlertsFetchFails
    \/ MessageSent
    \/ MessageFails
    \/ AlertsRetry

SpecForwarder == Init /\ [][NextForwarder]_vars

(***************************************************************************)
(* Properties                                                              *)
(***************************************************************************)
\* every request record of the state: the one answered last, and those in
\* progress
Records == {last} \cup {req[r] : r \in Reqs}

IsAdmitted(e) == e.admitted

AdmittedOf(rq) == SelectSeq(rq.evaluated, IsAdmitted)

Min(a, b) == IF a <= b THEN a ELSE b

\* C1: the list a scenario request returns, and the list kept in the short
\* cache under either scenario key, has at most TOP_RESULTS entries.
C1_AtMostTopResults ==
    /\ last.status = 200 => Len(last.body) <= TOP_RESULTS
    /\ \A ep \in Endpoints :
          shortCache[ep].has => Len(shortCache[ep].v) <= TOP_RESULTS

\* a run that admitted more than TOP_RESULTS symbols answered with exactly
\* TOP_RESULTS of them, and that list is the one in the cache
C1_Witness ==
    /\ last.status = 200 /\ ~last.hit
    /\ Len(AdmittedOf(last)) > TOP_RESULTS
    /\ Len(last.body) = TOP_RESULTS
    /\ shortCache[last.ep].has /\ shortCache[last.ep].v = last.body

UnpopularUsdt(list) ==
    \A i \in 1..Len(list) :
        EndsWith(list[i].symbol, USDT) /\ list[i].symbol \notin POPULAR_TOKENS

\* C2: every symbol of a returned or cached list ends with 'USDT' and is not
\* in POPULAR_TOKENS, and POPULAR_TOKENS is the set it was at start.
C2_OnlyUnpopularUsdt ==
    /\ popularTokens = POPULAR_TOKENS
    /\ UnpopularUsdt(last.body)
    /\ \A ep \in Endpoints : UnpopularUsdt(shortCache[ep].v)
    /\ \A r \in Reqs : UnpopularUsdt(req[r].candidates)

\* a run answered with a symbol, over a snapshot that also held a popular
\* token and pairs not quoted in USDT
C2_Witness ==
    /\ last.status = 200 /\ ~last.hit /\ last.body # <<>>
    /\ \E i \in 1..Len(last.tickerData) : last.tickerData[i].symbol \in POPULAR_TOKENS
    /\ \E i \in 1..Len(last.tickerData) : ~EndsWith(last.tickerData[i].symbol, USDT)

\* the step is the arrival of a request for ep
ArrivalAt(ep) ==
    /\ arrivals' = arrivals + 1
    /\ \/ \E r \in Reqs : req[r] = IdleReq /\ req'[r].pc = "fetching" /\ req'[r].ep = ep
       \/ req' = req /\ last'.ep = ep

\* the step is the normal end of a run of ep, which stores its list
StoredBy(ep) ==
    /\ \E r \in Reqs : req[r].ep = ep /\ req[r].pc \in {"fetching", "awaiting"}
                       /\ req'[r].pc = "idle"
    /\ last'.ep = ep /\ last'.status = 200 /\ ~last'.hit
    /\ shortCache'[ep] = CacheSet(last'.body, CACHE_SHORT_TTL)

\* the answer to a request for ep that arrives while its entry is there:
\* the entry's list, in the same step, no upstream call started and both
\* caches left as they are
AnsweredFromCache(ep) ==
    (ArrivalAt(ep) /\ shortCache[ep].has) =>
        /\ last' = [IdleReq EXCEPT !.pc = "done", !.ep = ep, !.hit = TRUE,
                                   !.status = 200, !.body = shortCache[ep].v]
        /\ req' = req
        /\ shortCache' = shortCache /\ longCache' = longCache

\* C3 as claimed: once a run has stored its list, that list is what every
\* request arriving before the entry expires is answered with, without an
\* upstream call: a request that finds the entry is answered from it, and
\* the entry keeps its list for as long as it is there.
C3_StoredListStands ==
    [][\A ep \in Endpoints :
          /\ AnsweredFromCache(ep)
          /\ (shortCache[ep].has /\ shortCache'[ep].has) =>
                shortCache'[ep].v = shortCache[ep].v]_vars

\* C3, amended: a request that arrives while the short cache holds an entry
\* for its scenario is answered with exactly that entry's list (the empty
\* list included), in the same step and without any upstream call; the
\* entry holds the list stored last under the key, with CACHE_SHORT_TTL
\* seconds to live from that store, and changes otherwise only by aging: a
\* run that missed the cache earlier and ends while the entry is there
\* replaces it.
C3_HitShortCircuits ==
    [][\A ep \in Endpoints :
          /\ AnsweredFromCache(ep)
          /\ shortCache'[ep] # shortCache[ep] =>
                \/ StoredBy(ep)
                \/ shortCache'[ep] = Aged(shortCache[ep], now' - now)]_vars

\* a request served from an entry that holds the empty list and has aged
C3_Witness ==
    /\ last.hit /\ last.status = 200 /\ last.body = <<>>
    /\ last.nTicker = 0 /\ last.nInfo = 0 /\ last.nKlines = 0
    /\ shortCache[last.ep].has
    /\ shortCache[last.ep].ttl < CACHE_SHORT_TTL

\* C4: when the ticker call fails after its retries the request ends with
\* status 500 and the generic error, no list, and no indicator call; no run
\* reaches the indicator calls without the snapshot.
C4_TickerFailureAborts ==
    /\ last.ticker = "failed" =>
          /\ last.pc = "done" /\ last.status = 500
          /\ last.error = "Internal server error"
          /\ last.body = <<>> /\ last.evaluated = <<>> /\ last.nKlines = 0
    /\ \A r \in Reqs : req[r].pc = "awaiting" => req[r].ticker = "ok"

\* a request whose ticker call failed three times
C4_Witness ==
    /\ last.ticker = "failed" /\ last.nTicker = DEFAULT_RETRIES + 1
    /\ last.status = 500

\* a failed indicator holds its neutral default
NeutralWhereFailed(e) ==
    /\ 1 \in e.failed => e.ind[1] = 0
    /\ 2 \in e.failed => e.ind[2] = 0
    /\ 3 \in e.failed => e.ind[3] = 50
    /\ 4 \in e.failed => e.ind[4] = 1 * Scale
    /\ 5 \in e.failed => e.ind[5] = FALSE
    /\ 6 \in e.failed => e.ind[6] = 10 * Scale

\* the symbol was scored and tested for admission with the values in ind
ScoredWith(ep, e) ==
    /\ e.score = IF ep = "explosion" THEN explosionScore(e.ind, e.isNew)
                 ELSE alertScore(e.ind, e.isNew)
    /\ e.admitted = IF ep = "explosion" THEN ExplosionAdmitted(e.ind, e.score)
                    ELSE AlertAdmitted(e.ind, e.score)

\* the symbols the loop does not skip, in ticker order
NotSkipped(rq) ==
    LET Kept(t) == ~Skipped(t, MinVolume(rq.ep), POPULAR_TOKENS)
        kept == SelectSeq(LoopData(rq), Kept)
    IN  [i \in 1..Len(kept) |-> kept[i].symbol]

\* C5: whatever subset of a symbol's six indicator calls fails, each failed
\* indicator is its neutral default, the symbol is scored and tested with
\* those values, and a run whose ticker call succeeded ends with status 200
\* having evaluated every symbol it does not skip and returning the admitted
\* ones.
C5_IndicatorFailuresDegrade ==
    /\ \A rq \in Records : \A i \in 1..Len(rq.evaluated) :
          NeutralWhereFailed(rq.evaluated[i]) /\ ScoredWith(rq.ep, rq.evaluated[i])
    /\ (last.pc = "done" /\ last.ticker = "ok") =>
          /\ last.status = 200
          /\ [i \in 1..Len(last.evaluated) |-> last.evaluated[i].symbol]
               = NotSkipped(last)
          /\ \A i \in 1..Len(last.evaluated) :
                last.evaluated[i].admitted =
                   (\E j \in 1..Len(last.body) :
                       last.body[j].symbol = last.evaluated[i].symbol)

\* a run in which all six calls of the first symbol failed and the second
\* symbol, its RSI call failed, was admitted
C5_Witness ==
    /\ last.status = 200 /\ Len(last.evaluated) = 2
    /\ last.evaluated[1].failed = 1..6 /\ ~last.evaluated[1].admitted
    /\ last.evaluated[2].failed = {3} /\ last.evaluated[2].admitted
    /\ Len(last.body) = 1

\* C6 as claimed: a request whose exchange-info call failed after its
\* retries ends with status 500.
C6_ListingsFailureAborts ==
    last.listings = "failed" => last.status = 500

\* C6, amended: when the exchange-info call fails after its retries,
\* getNewListings returns the empty list and the run goes on: no symbol is
\* scored as a new listing, and the request ends with status 200 unless the
\* ticker call failed.
C6_ListingsFailureDegrades ==
    /\ \A rq \in Records : rq.listings = "failed" =>
          /\ rq.newListings = <<>>
          /\ \A i \in 1..Len(rq.evaluated) : ~rq.evaluated[i].isNew
    /\ (last.pc = "done" /\ last.listings = "failed") =>
          (last.status = 500) = (last.ticker = "failed")
    /\ (last.pc = "done" /\ last.listings = "failed" /\ last.ticker = "ok") =>
          last.status = 200

\* a run that answered 200 with a symbol after its exchange-info call failed
C6_Witness ==
    /\ last.listings = "failed" /\ last.nInfo = DEFAULT_RETRIES + 1
    /\ last.status = 200 /\ last.body # <<>>

\* C7: a call of fetchData makes at most 3 requests; it returns the data of
\* the first attempt that succeeds, having made no attempt after it; it
\* throws exactly when its first 3 attempts fail; and the call as a whole is
\* what fetchData computes.
C7_AtMostThreeAttempts ==
    /\ fd.attempts <= DEFAULT_RETRIES + 1
    /\ \A k \in 1..fd.attempts : fd.net[k].ok => (k = fd.attempts /\ fd.pc = "returned")
    /\ fd.pc = "calling" => fd.attempts <= DEFAULT_RETRIES
    /\ fd.pc = "returned" =>
          /\ fd.attempts >= 1 /\ fd.net[fd.attempts].ok
          /\ fd.data = fd.net[fd.attempts].data
    /\ fd.pc = "thrown" => fd.attempts = DEFAULT_RETRIES + 1
    /\ fd.pc \in {"returned", "thrown"} =>
          fetchData(fd.net, DEFAULT_RETRIES)
             = [ok |-> fd.pc = "returned", data |-> fd.data, attempts |-> fd.attempts]

\* a call that threw after 3 attempts although a 4th would have succeeded
C7_Witness ==
    /\ fd.pc = "thrown" /\ fd.attempts = 3
    /\ fd.net[4].ok

\* the admission conditions of the explosion scenario, as claimed
ExplosionConditions(e) ==
    /\ Ge(e.volume, 30000)
    /\ Ge(e.ind[1], 300) /\ Ge(e.ind[2], 400) /\ Ge(e.ind[4], 150)
    /\ Ge(e.ind[3], 40) /\ Le(e.ind[3], 70)
    /\ Ge(e.score, 40)

\* C8: in a run of /api/explosion-candidates an evaluated symbol is admitted
\* exactly when its volume, change5m, change1h, volumeRatio, RSI and score
\* meet the conditions, and the returned list holds only admitted symbols,
\* with the values they were admitted with.
C8_ExplosionAdmission ==
    \A rq \in Records : rq.ep = "explosion" =>
        /\ \A i \in 1..Len(rq.evaluated) :
              rq.evaluated[i].admitted = ExplosionConditions(rq.evaluated[i])
        /\ \A j \in 1..Len(rq.body) : \E i \in 1..Len(rq.evaluated) :
              LET e == rq.evaluated[i]
                  c == rq.body[j]
              IN  /\ ~rq.hit => (e.symbol = c.symbol /\ ExplosionConditions(e))
                  /\ rq.hit \/ (c.change_5m = e.ind[1] /\ c.change_1h = e.ind[2]
                                  /\ c.rsi = e.ind[3] /\ c.volumeRatio = e.ind[4]
                                  /\ c.volume = e.volume /\ c.score = e.score)

\* a symbol admitted with every condition at its limit
C8_Witness ==
    /\ last.ep = "explosion" /\ last.status = 200 /\ Len(last.body) = 1
    /\ last.body[1].volume = 30000
    /\ last.body[1].change_5m = 300 /\ last.body[1].change_1h = 400
    /\ last.body[1].volumeRatio = 150 /\ last.body[1].rsi = 70

\* the admission conditions of the alert scenario, as claimed
AlertConditions(e) ==
    /\ Ge(e.volume, 20000)
    /\ Ge(e.ind[1], 300) /\ Ge(e.ind[2], 400) /\ Ge(e.ind[4], 150)
    /\ Ge(e.score, 40)

\* C9: in a run of /api/pre-explosion-signals an evaluated symbol is admitted
\* exactly when its volume, change5m, change1h, volumeRatio and alertScore
\* meet the conditions, whatever its RSI; an RSI outside [40, 70] lowers the
\* alertScore by (100 - 50) * 0.1 = 5 and does nothing else.
C9_AlertAdmissionIgnoresBand ==
    \A rq \in Records : rq.ep = "alerts" =>
        \A i \in 1..Len(rq.evaluated) :
            LET e == rq.evaluated[i]
                inBand == e.ind[3] >= 40 /\ e.ind[3] <= 70
            IN  /\ e.admitted = AlertConditions(e)
                /\ e.score # NaN =>
                      e.score = alertScore([e.ind EXCEPT ![3] = 55], e.isNew)
                                  - (IF inBand THEN 0 ELSE 5)

\* a symbol admitted with an RSI above the band, all else at its limit
C9_Witness ==
    /\ last.ep = "alerts" /\ last.status = 200 /\ Len(last.body) = 1
    /\ last.body[1].rsi > 70
    /\ last.body[1].volume = 20000
    /\ last.body[1].change_5m = 300 /\ last.body[1].change_1h = 400

\* the position of the i-th admitted symbol when ranked by score, the
\* earlier admitted first among equal scores
RankOf(adm, i) ==
    1 + Cardinality({j \in 1..Len(adm) :
                        \/ adm[j].score > adm[i].score
                        \/ adm[j].score = adm[i].score /\ j < i})

\* C10: the list a run returns is in non-increasing order of score and is
\* the top of the admitted set (no admitted symbol left out has a score
\* greater than a returned one); it is determined by the snapshot, the
\* new-listing set and the indicator values alone: each indicator holds the
\* value of its own call whatever the order of completion, and the list
\* is the admitted symbols in rank order.
C10_RankedAndDetermined ==
    /\ \A rq \in Records : \A i \in 1..Len(rq.evaluated) :
          rq.evaluated[i].ind = rq.evaluated[i].values
    /\ (last.status = 200 /\ ~last.hit) =>
          LET adm == AdmittedOf(last)
              body == last.body
          IN  /\ \A i, j \in 1..Len(body) : i < j => body[i].score >= body[j].score
              /\ Len(body) = Min(Len(adm), TOP_RESULTS)
              /\ \A i \in 1..Len(adm) :
                    IF RankOf(adm, i) <= TOP_RESULTS
                    THEN /\ body[RankOf(adm, i)].symbol = adm[i].symbol
                         /\ body[RankOf(adm, i)].score = adm[i].score
                    ELSE \A k \in 1..Len(body) : adm[i].score <= body[k].score

\* a run that left admitted symbols out, returned equal scores next to each
\* other and a first entry that was not the first admitted
C10_Witness ==
    /\ last.status = 200 /\ ~last.hit
    /\ Len(AdmittedOf(last)) > TOP_RESULTS
    /\ last.body[1].symbol # AdmittedOf(last)[1].symbol
    /\ \E i \in 1..(Len(last.body) - 1) : last.body[i].score = last.body[i + 1].score

\* what the filter of the claim keeps: the suffix, and not a popular token
Eligible(t) == EndsWith(t.symbol, USDT) /\ t.symbol \notin POPULAR_TOKENS

\* the pool of the claim: the snapshot filtered, then cut to MAX_CANDIDATES
FilteredPool(rq) == Slice0(SelectSeq(rq.tickerData, Eligible), MAX_CANDIDATES)

\* the symbols of a pool that pass the scenario's volume floor
OverFloor(rq, pool) ==
    LET Enough(t) == ~Lt(t.baseVolume, MinVolume(rq.ep))
        kept == SelectSeq(pool, Enough)
    IN  [i \in 1..Len(kept) |-> kept[i].symbol]

\* C11: the symbols a run evaluates are those of the snapshot filtered
\* (suffix 'USDT', not in POPULAR_TOKENS) and then cut to its first
\* MAX_CANDIDATES, in ticker order: an eligible symbol over the volume floor
\* is evaluated whenever fewer than MAX_CANDIDATES eligible symbols precede
\* it, however many other tickers do.
C11_FilterThenTruncate ==
    (last.pc = "done" /\ last.ticker = "ok") =>
        [i \in 1..Len(last.evaluated) |-> last.evaluated[i].symbol]
           = OverFloor(last, FilteredPool(last))

\* C12: for a symbol that is not a new listing, the explosionScore that
\* /api/analysis/{symbol} returns is the explosionScore the explosion
\* scenario computes from the same indicator values, with the recommendation
\* that goes with it, whether or not the values pass the admission test.
C12_AnalysisScoreIsExplosionScore ==
    (other.route = "analysis" /\ other.pc = "done" /\ other.status = 200) =>
        /\ other.explosionScore = explosionScore(other.ind, FALSE)
        /\ other.action = ExplosionCandidate(Ticker(other.symbol, other.price, other.volume),
                                             other.ind, other.explosionScore, FALSE).action

\* twice the sum under Math.round, in 1/7000: a change of x hundredths of a
\* percent adds x/100/25*100*0.4 = 112x/7000, and so on
TwiceScoreSum(c5, c1, vr, rsi, isNew, compressed, bonus) ==
    112 * c5 + 40 * c1 + 210 * vr
    + 7000 * ((IF rsi >= 40 /\ rsi <= 70 THEN 10 ELSE 5)
              + (IF isNew THEN 20 ELSE 0)
              + (IF compressed THEN bonus ELSE 0)
              + 20)

\* round(x) is the greatest integer not above x + 1/2
RoundedScore(e, bonus) ==
    IF e.ind[1] = NaN \/ e.ind[2] = NaN \/ e.ind[4] = NaN THEN NaN
    ELSE LET twice == TwiceScoreSum(e.ind[1], e.ind[2], e.ind[4], e.ind[3],
                                    e.isNew, e.ind[5], bonus)
         IN  CHOOSE k \in -200..400 : 7000 * k <= twice + 3500 /\ twice + 3500 < 7000 * (k + 1)

\* C13: the score of every symbol evaluated by the explosion scenario is
\* round(change5m/25*100*0.4 + change1h/35*100*0.2 + volumeRatio/10*100*0.3
\* + (40 <= rsi <= 70 ? 100 : 50)*0.1 + (isNew ? 20 : 0)
\* + (compressed ? 10 : 0) + 20), that of the alert scenario the same with 25
\* for the compression bonus; and with change5m 4, change1h 5, volumeRatio
\* 2.0, rsi 55, not new, compressed, the explosion score is 55 and the
\* symbol is admitted.
C13_ScoreFormula ==
    \A rq \in Records : \A i \in 1..Len(rq.evaluated) :
        LET e == rq.evaluated[i]
        IN  /\ e.score = RoundedScore(e, IF rq.ep = "explosion" THEN 10 ELSE 25)
            /\ (rq.ep = "explosion" /\ e.ind[1] = 400 /\ e.ind[2] = 500
                  /\ e.ind[4] = 200 /\ e.ind[3] = 55 /\ ~e.isNew /\ e.ind[5] = TRUE) =>
                  (e.score = 55 /\ e.admitted)

\* the worked example, evaluated and returned by the explosion scenario
C13_Witness ==
    /\ last.ep = "explosion" /\ last.status = 200 /\ Len(last.body) = 1
    /\ last.body[1].change_5m = 400 /\ last.body[1].change_1h = 500
    /\ last.body[1].volumeRatio = 200 /\ last.body[1].rsi = 55
    /\ ~last.body[1].isNew /\ last.evaluated[1].ind[5] = TRUE
    /\ last.body[1].score = 55

\* the k-th indicator call of the analysis returned fewer than n candles
ShortOf(k, n) == other.res[k].ok /\ Len(other.res[k].data) < n

\* C14: an indicator whose call returns fewer candles than it needs gives
\* its neutral default: change 0 with fewer than 2 candles, RSI 50 with
\* fewer than RSI_PERIOD + 1, and, with no candle or a single one,
\* volumeRatio 1, compression false and volatility 10.
C14_ShortWindowDefaults ==
    (other.route = "analysis" /\ other.pc = "done" /\ other.status = 200) =>
        /\ ShortOf(1, 2) => other.ind[1] = 0
        /\ ShortOf(2, 2) => other.ind[2] = 0
        /\ ShortOf(3, RSI_PERIOD + 1) => other.ind[3] = 50
        /\ ShortOf(4, 2) => other.ind[4] = 1 * Scale
        /\ ShortOf(5, 2) => other.ind[5] = FALSE
        /\ ShortOf(6, 2) => other.ind[6] = 10 * Scale

\* the closes the RSI call of the analysis returned
RsiCloses == Closes(other.res[3].data)

\* the last RSI_PERIOD close-to-close deltas
WindowDeltas ==
    LET n == Len(RsiCloses)
    IN  [j \in 1..RSI_PERIOD |-> RsiCloses[n - RSI_PERIOD + j] - RsiCloses[n - RSI_PERIOD + j - 1]]

RisesIn(deltas) == SumSeq([j \in 1..Len(deltas) |-> IF deltas[j] > 0 THEN deltas[j] ELSE 0])
FallsIn(deltas) == SumSeq([j \in 1..Len(deltas) |-> IF deltas[j] < 0 THEN 0 - deltas[j] ELSE 0])

\* C15: for at least RSI_PERIOD + 1 closes, calculateRSI is an integer in
\* 0..100: 50 when every delta of the window is 0, 100 when the window has
\* rises and no fall, and otherwise round(100 - 100 / (1 + avgGain/avgLoss)),
\* which is round(100 * gain / (gain + loss)), over the last RSI_PERIOD
\* deltas.
C15_RsiValue ==
    (other.route = "analysis" /\ other.pc = "done" /\ other.status = 200
       /\ other.res[3].ok /\ Len(RsiCloses) >= RSI_PERIOD + 1) =>
        LET gain == RisesIn(WindowDeltas)
            loss == FallsIn(WindowDeltas)
            rsi == other.ind[3]
        IN  /\ rsi \in 0..100
            /\ (gain = 0 /\ loss = 0) => rsi = 50
            /\ (gain > 0 /\ loss = 0) => rsi = 100
            /\ loss > 0 =>
                  /\ 2 * rsi * (gain + loss) <= 200 * gain + (gain + loss)
                  /\ 200 * gain + (gain + loss) < 2 * (rsi + 1) * (gain + loss)

\* an RSI of 55 computed over the last RSI_PERIOD deltas of a longer window,
\* whose first delta is left out
C15_Witness ==
    /\ other.route = "analysis" /\ other.pc = "done" /\ other.status = 200
    /\ other.res[3].ok /\ Len(other.res[3].data) = RSI_PERIOD + 2
    /\ other.ind[3] = 55

\* the consecutive percent changes, in hundredths, of the window the
\* compression call of the analysis fetched
WindowChanges ==
    LET w == other.res[5].data
    IN  [i \in 1..(Len(w) - 1) |->
            ((w[i + 1].close - w[i].close) * 100 * Scale) \div w[i].close]

\* n^3 times the mean squared distance of the changes from their mean
SpreadTimesN3(changes) ==
    LET n == Len(changes)
        total == SumSeq(changes)
    IN  SumSeq([i \in 1..n |-> (n * changes[i] - total) * (n * changes[i] - total)])

\* n^3 times the square of COMPRESSION_THRESHOLD
ThresholdTimesN3(changes) ==
    COMPRESSION_THRESHOLD * COMPRESSION_THRESHOLD
      * Len(changes) * Len(changes) * Len(changes)

\* C16: calculateCompression returns true if and only if the population
\* standard deviation of the consecutive percent changes of the fetched
\* window is strictly below COMPRESSION_THRESHOLD; a deviation equal to the
\* threshold gives false.
C16_CompressedIffBelowThreshold ==
    (other.route = "analysis" /\ other.pc = "done" /\ other.status = 200
       /\ other.res[5].ok /\ Len(other.res[5].data) >= 2) =>
        (other.ind[5] <=> SpreadTimesN3(WindowChanges) < ThresholdTimesN3(WindowChanges))

\* a window whose deviation equals the threshold exactly, answered false
C16_Witness ==
    /\ other.route = "analysis" /\ other.pc = "done" /\ other.status = 200
    /\ other.res[5].ok /\ Len(other.res[5].data) >= 2
    /\ SpreadTimesN3(WindowChanges) = ThresholdTimesN3(WindowChanges)
    /\ other.ind[5] = FALSE

\* the run of rq went through the whole pipeline on its own: its own ticker
\* call, and the six indicator calls of every symbol its loop does not skip
OwnPipeline(rq) ==
    /\ rq.ticker = "ok" /\ rq.nTicker >= 1
    /\ [i \in 1..Len(rq.evaluated) |-> rq.evaluated[i].symbol] = NotSkipped(rq)
    /\ rq.nKlines >= 6 * Len(rq.evaluated)

\* list is a complete result of the run rq: at most TOP_RESULTS entries, in
\* non-increasing order of score, each a symbol the run admitted with the
\* score the run gave it, and no admitted symbol missing while there is room
CompleteListOf(list, rq) ==
    LET adm == AdmittedOf(rq)
    IN  /\ Len(list) <= TOP_RESULTS
        /\ \A i \in 1..(Len(list) - 1) : list[i].score >= list[i + 1].score
        /\ \A i \in 1..Len(list) :
              \E j \in 1..Len(adm) :
                  adm[j].symbol = list[i].symbol /\ adm[j].score = list[i].score
        /\ \A i, j \in 1..Len(list) : i # j => list[i].symbol # list[j].symbol
        /\ Len(list) < TOP_RESULTS =>
              \A j \in 1..Len(adm) : \E i \in 1..Len(list) : list[i].symbol = adm[j].symbol

\* the step ends a run of ep normally
RunEndsFor(ep) ==
    /\ \E r \in Reqs : req[r].ep = ep /\ req[r].pc \in {"fetching", "awaiting"}
                       /\ req'[r].pc = "idle"
    /\ last'.ep = ep /\ last'.status = 200 /\ ~last'.hit

\* C17: requests to one scenario that find no entry in the short cache each
\* run the whole pipeline, whatever other run is in progress; each answers
\* with a complete list of its own; the list under the scenario's key
\* changes only when one of the runs ends, and is then the complete list of
\* that run: after all of them the list of the last to end, never the
\* candidates of a run in progress nor a blend of two runs.
C17_ConcurrentRunsStoreWholeLists ==
    [][\A ep \in Endpoints :
          /\ (ArrivalAt(ep) /\ ~shortCache[ep].has) =>
                \E r \in Reqs :
                    /\ req[r] = IdleReq
                    /\ req'[r].ep = ep /\ req'[r].pc = "fetching"
                    /\ req'[r].ticker = "pending" /\ req'[r].candidates = <<>>
                    /\ \A q \in Reqs \ {r} : req'[q] = req[q]
          /\ RunEndsFor(ep) =>
                /\ OwnPipeline(last')
                /\ CompleteListOf(last'.body, last')
                /\ shortCache'[ep].has /\ shortCache'[ep].v = last'.body
          /\ shortCache'[ep].v # shortCache[ep].v =>
                \/ RunEndsFor(ep)
                \/ ~shortCache'[ep].has]_vars

\* a run has ended and its list is the one in the cache, while another run
\* of the same scenario, which missed the cache too, is still under way
\* with candidates of its own
C17_Witness ==
    /\ last.status = 200 /\ ~last.hit /\ last.body # <<>>
    /\ shortCache[last.ep].has /\ shortCache[last.ep].v = last.body
    /\ \E r \in Reqs :
          /\ req[r].ep = last.ep /\ req[r].pc = "awaiting"
          /\ req[r].candidates # <<>> /\ req[r].candidates # last.body

\* the tickers of the run's pool, from position from on, that its loop does
\* not skip
ToEvaluate(rq, from) ==
    {i \in from..Len(LoopData(rq)) :
        ~Skipped(LoopData(rq)[i], MinVolume(rq.ep), POPULAR_TOKENS)}

\* the indicator calls of a run that are outstanding: six for each ticker
\* in flight
Outstanding(rq) == 6 * Cardinality(rq.inflight)

\* C18 as claimed: the symbols of a run are processed concurrently: the
\* indicator calls of a later symbol are started without waiting for those
\* of an earlier one, so that while the run waits for the symbol at idx the
\* calls of every later symbol it will evaluate are outstanding as well.
C18_SymbolsConcurrent ==
    \A r \in Reqs :
        req[r].pc = "awaiting" => req[r].inflight = ToEvaluate(req[r], req[r].idx)

\* C18, amended: the symbols of a run are processed one after the other.
\* While the run waits, the outstanding indicator calls are the six of one
\* symbol, the one at idx; every symbol before it that the loop does not
\* skip has been joined and evaluated, and none after it has been started.
\* A run that is not waiting has no indicator call outstanding.
C18_SymbolsInTurn ==
    \A r \in Reqs :
        LET rq == req[r]
        IN  /\ Outstanding(rq) <= 6
            /\ rq.pc # "awaiting" => rq.inflight = {}
            /\ rq.pc = "awaiting" =>
                  /\ rq.inflight = {rq.idx}
                  /\ rq.idx \in ToEvaluate(rq, 1)
                  /\ Len(rq.evaluated) = Cardinality(ToEvaluate(rq, 1) \cap 1..(rq.idx - 1))
                  /\ \A i \in 1..Len(rq.evaluated) :
                        \E j \in 1..(rq.idx - 1) :
                            LoopData(rq)[j].symbol = rq.evaluated[i].symbol

\* a run with two symbols to evaluate waits for the second, the first one
\* evaluated: the calls of the second alone are outstanding
C18_Witness ==
    \E r \in Reqs :
        /\ req[r].pc = "awaiting"
        /\ Len(req[r].evaluated) = 1
        /\ req[r].inflight = {req[r].idx}
        /\ Cardinality(ToEvaluate(req[r], 1)) >= 2

\* the step ends a scenario request with status 500
RequestFails ==
    /\ \E r \in Reqs : req[r].pc \in {"fetching", "awaiting"} /\ req'[r].pc = "idle"
    /\ last'.status = 500

\* the step is the arrival of a scenario request that is served from the
\* cache
ServedFromCache ==
    /\ arrivals' = arrivals + 1 /\ req' = req
    /\ last'.hit

\* C19: an entry of the short cache is written only by the step that ends a
\* run of its scenario with status 200, and that step writes the run's list
\* under the run's own key, with CACHE_SHORT_TTL to live, and leaves the
\* other scenario's entry as it is.  The steps of a run before its end, a
\* request that ends with status 500, a request served from the cache, and
\* every step of a request to /api/top-gainers, /api/new-listings or
\* /api/analysis/:symbol leave both entries unchanged; an entry changes
\* otherwise only by aging.
C19_ShortCacheFrame ==
    [][/\ \A ep \in Endpoints :
            /\ RunEndsFor(ep) =>
                  /\ shortCache'[ep] = CacheSet(last'.body, CACHE_SHORT_TTL)
                  /\ \A e2 \in Endpoints \ {ep} : shortCache'[e2] = shortCache[e2]
            /\ shortCache'[ep] # shortCache[ep] =>
                  \/ RunEndsFor(ep)
                  \/ now' > now /\ shortCache'[ep] = Aged(shortCache[ep], now' - now)
       /\ RequestFails => shortCache' = shortCache
       /\ ServedFromCache => shortCache' = shortCache
       /\ other' # other => shortCache' = shortCache
       /\ (now' = now /\ \A ep \in Endpoints : ~RunEndsFor(ep)) =>
             shortCache' = shortCache]_vars

\* a request has ended with status 500 while its scenario's entry, stored
\* by another run, is in the cache, the other scenario has no entry, and a
\* request to /api/analysis/:symbol has been answered
C19_Witness ==
    /\ last.status = 500 /\ last.ep \in Endpoints
    /\ shortCache[last.ep].has /\ shortCache[last.ep].v # <<>>
    /\ \A e2 \in Endpoints \ {last.ep} : ~shortCache[e2].has
    /\ other.route = "analysis" /\ other.pc = "done" /\ other.status = 200

\* the step ends the exchange-info call of a request to /api/new-listings
ListingsCallEnds ==
    /\ other.route = "new-listings" /\ other.pc = "fetching"
    /\ other'.pc = "done"

\* the step is the arrival of a request to /api/new-listings
ListingsRequested == other'.route = "new-listings" /\ other' # other /\ ~ListingsCallEnds

\* the step ends the exchange-info call that request slot r made
InfoCallEnds(r) == req[r].listings = "pending" /\ req'[r].listings # "pending"

\* the symbols of a response of /api/new-listings
SymbolsOf(body) == [i \in 1..Len(body) |-> body[i].symbol]

\* out is what the claim has getNewListings compute from the symbols raw:
\* at most MAX_CANDIDATES of the symbols of raw that end in 'USDT' and are
\* not popular, each once, the most recently onboarded of them, most recent
\* first
RecentOf(out, raw) ==
    LET Keeps(k) == EndsWith(raw[k].symbol, USDT) /\ raw[k].symbol \notin POPULAR_TOKENS
        kept == {k \in 1..Len(raw) : Keeps(k)}
        At(i) == CHOOSE k \in kept : raw[k].symbol = out[i]
    IN  /\ Len(out) <= MAX_CANDIDATES
        /\ Len(out) = Min(Cardinality(kept), MAX_CANDIDATES)
        /\ \A i \in 1..Len(out) : \E k \in kept : raw[k].symbol = out[i]
        /\ \A i, j \in 1..Len(out) : i # j => out[i] # out[j]
        /\ \A i \in 1..(Len(out) - 1) : raw[At(i)].onboardDate >= raw[At(i + 1)].onboardDate
        /\ \A k \in kept :
              (\A i \in 1..Len(out) : out[i] # raw[k].symbol) =>
                  \A i \in 1..Len(out) : raw[At(i)].onboardDate >= raw[k].onboardDate

\* what C20 says of one step, the life of the stored list apart
ListingsStep ==
    /\ ListingsCallEnds =>
          IF other'.res[1].ok
          THEN /\ RecentOf(SymbolsOf(other'.body), other'.res[1].data)
               /\ longCache' = CacheSet(SymbolsOf(other'.body), CACHE_LONG_TTL)
          ELSE /\ other'.body = <<>> /\ other'.status = 200
               /\ longCache' = longCache
    /\ ListingsRequested =>
          IF longCache.has
          THEN /\ other'.pc = "done" /\ other'.nFetch = 0
               /\ SymbolsOf(other'.body) = longCache.v
               /\ longCache' = longCache
          ELSE other'.pc = "fetching"
    /\ \A r \in Reqs :
          (req[r] = IdleReq /\ req'[r].pc = "fetching") =>
              IF longCache.has
              THEN /\ req'[r].listings = "cached" /\ req'[r].newListings = longCache.v
                   /\ longCache' = longCache
              ELSE req'[r].listings = "pending"
    /\ \A r \in Reqs :
          (InfoCallEnds(r) /\ req'[r].listings = "failed") => longCache' = longCache

\* C20 as claimed: getNewListings returns at most MAX_CANDIDATES symbols,
\* each ending in 'USDT' and none popular, most recently onboarded first; a
\* call that finds a stored list returns it without an exchange-info call; a
\* failed call returns the empty list and stores nothing; and the list a
\* call has stored stays the stored one, returned by the later calls, until
\* the entry expires.
C20_StoredListingsStand ==
    [][/\ ListingsStep
       /\ (longCache.has /\ longCache'.has) => longCache'.v = longCache.v]_vars

\* C20, amended: as claimed, but for the life of the stored list: the long
\* cache holds the list stored last, with CACHE_LONG_TTL seconds to live
\* from that store, and changes otherwise only by aging: a call that missed
\* the cache before the store and succeeds while the entry is there
\* replaces it.
C20_ListingsCached ==
    [][/\ ListingsStep
       /\ longCache' # longCache =>
             \/ now' > now /\ longCache' = Aged(longCache, now' - now)
             \/ /\ longCache'.has /\ longCache'.ttl = CACHE_LONG_TTL
                /\ \/ ListingsCallEnds /\ other'.res[1].ok
                   \/ \E r \in Reqs : InfoCallEnds(r) /\ req'[r].listings # "failed"]_vars

\* a request to /api/new-listings answered from the cache, without a call,
\* with the MAX_CANDIDATES symbols stored some time before
C20_Witness ==
    /\ other.route = "new-listings" /\ other.pc = "done" /\ other.hit
    /\ other.nFetch = 0 /\ Len(other.body) = MAX_CANDIDATES
    /\ longCache.has /\ longCache.ttl < CACHE_LONG_TTL
    /\ SymbolsOf(other.body) = longCache.v

\* C21 as claimed: in one invocation of fetchAndSendAlerts, retries
\* included, a message is sent only for a token among the first ALERT_TOP of
\* the polled list whose explosionScore is at least MODERATE_SCORE, in the
\* urgent form from URGENT_SCORE on and in the moderate form below; the
\* messages are sent in list order; and no token is sent more than once,
\* whatever fetch or send fails on the way.
C21_SentOncePerInvocation ==
    LET sent == forwarder.sent
    IN  /\ \A i \in 1..Len(sent) :
              /\ sent[i].position <= ALERT_TOP
              /\ sent[i].explosionScore >= MODERATE_SCORE
              /\ sent[i].form = IF sent[i].explosionScore >= URGENT_SCORE
                                THEN "urgent" ELSE "moderate"
        /\ \A i, j \in 1..Len(sent) :
              (i < j /\ sent[i].call = sent[j].call) => sent[i].position < sent[j].position
        /\ \A i, j \in 1..Len(sent) : i # j => sent[i].symbol # sent[j].symbol
====
